---- MODULE Spec2Model ----
(***************************************************************************)
(* A model of the music repository's computational core:                   *)
(*   src/src/music/graph.py   Graph.shortest_path and assign               *)
(*   src/src/music/music.py   Chord.semitone_distance,                     *)
(*                            GuitarPosition.motion_distance,              *)
(*                            ChordProgression.optimal_voice_leading and   *)
(*                            ChordProgression.optimal_guitar_positions    *)
(*                                                                         *)
(* Notes are modelled by their semitone index (Note.__eq__, __lt__,        *)
(* __sub__ and __hash__ read nothing else).  A Chord is the sorted         *)
(* sequence of its notes' semitone indices.                                *)
(***************************************************************************)
EXTENDS Integers, Sequences, FiniteSets, TLC

VARIABLES
    pc,            \* position of the running call
    nodes,         \* Graph.nodes
    edges,         \* the edge list handed to Graph.__init__
    initial,       \* shortest_path argument
    terminal,      \* shortest_path argument
    costs,         \* shortest_path local
    predecessors,  \* shortest_path local
    unvisited,     \* shortest_path local: the keys of the dict, in dict order
    current_node,  \* shortest_path local
    trajectory,    \* shortest_path local
    cost_matrix,   \* assign argument
    assign_surplus,\* assign argument
    chord,         \* the Chord (self) of semitone_distance
    position,      \* the GuitarPosition (self) of motion_distance
    other,         \* the other Chord or GuitarPosition
    progression,   \* ChordProgression.chords
    lower,         \* optimal_voice_leading argument
    upper,         \* optimal_voice_leading argument
    use_dijkstra,  \* optimal_voice_leading argument
    guitar,        \* optimal_guitar_positions argument
    args,          \* the receiver and arguments of a call on a Note, a ChordName
                   \* or of Chord.guitar_positions
    iterable,      \* the chords handed to Pool.map
    nested,        \* Pool.map: the outcome of the task of every chord
    result         \* what the call returned

graphVars == <<nodes, edges, initial, terminal, costs, predecessors,
               unvisited, current_node, trajectory>>

assignVars == <<cost_matrix, assign_surplus>>

distanceVars == <<chord, position, other>>

progressionVars == <<progression, lower, upper, use_dijkstra, guitar>>

callVars == <<args, iterable, nested>>

vars == <<pc, result, graphVars, assignVars, distanceVars, progressionVars,
          callVars>>

(***************************************************************************)
(* Bounds of the model.                                                    *)
(***************************************************************************)
NumNodes == 3
MaxWeight == 2
MaxRows == 3
MaxCost == 2
MaxNotes == 3
MaxSemitone == 5
NumStrings == 3
MaxFret == 2
MaxChords == 3
MaxNoteOctave == 10
NearOctaves == 1
MaxNameLen == 4
MaxVoices == 4
MaxFiltered == 3
MaxGuitarFrets == 6
MaxCapo == 7
LowerOctaves == 2..3

\* float('inf'): larger than every cost the model can build
inf == 1000000

\* Python's None in a list of Optional[int]
None == -1

(***************************************************************************)
(* Generic helpers for Python lists.                                       *)
(***************************************************************************)
Range(s) == {s[i] : i \in DOMAIN s}

Reverse(s) == [i \in 1..Len(s) |-> s[Len(s) + 1 - i]]

RECURSIVE SumSeq(_)
SumSeq(s) == IF s = <<>> THEN 0 ELSE Head(s) + SumSeq(Tail(s))

Min(S) == CHOOSE x \in S : \A y \in S : x <= y

Abs(x) == IF x < 0 THEN -x ELSE x

\* index of the first occurrence of x in s (list.index); 0 when absent
IndexOf(s, x) ==
    IF \E i \in DOMAIN s : s[i] = x
    THEN CHOOSE i \in DOMAIN s : s[i] = x /\ \A k \in 1..(i - 1) : s[k] /= x
    ELSE 0

(***************************************************************************)
(* graph.py: class Graph                                                   *)
(***************************************************************************)
Edge(start, end, weight) == [start |-> start, end |-> end, weight |-> weight]

\* Graph.__init__: self.edges, a dict keyed by (start, end); a later edge of
\* the list overwrites an earlier one with the same key.
GraphEdges(edgeList) ==
    [k \in {<<edgeList[i].start, edgeList[i].end>> : i \in DOMAIN edgeList} |->
        LET last == CHOOSE i \in DOMAIN edgeList :
                        /\ <<edgeList[i].start, edgeList[i].end>> = k
                        /\ \A j \in DOMAIN edgeList :
                              <<edgeList[j].start, edgeList[j].end>> = k => j <= i
        IN edgeList[last].weight]

\* Graph.__init__: self.graph, a defaultdict(list): the ends of a node's
\* edges in list order; a node with no edge reads as [].
RECURSIVE GraphNeighbors(_, _)
GraphNeighbors(edgeList, node) ==
    IF edgeList = <<>> THEN <<>>
    ELSE (IF Head(edgeList).start = node THEN <<Head(edgeList).end>> ELSE <<>>)
         \o GraphNeighbors(Tail(edgeList), node)

\* the elements of a list, each at its first place: the keys of a dict built
\* from the list
RECURSIVE FirstOccurrences(_)
FirstOccurrences(list) ==
    IF list = <<>> THEN <<>>
    ELSE <<Head(list)>>
         \o SelectSeq(FirstOccurrences(Tail(list)), LAMBDA x : x /= Head(list))

\* the keys of `costs` in dict order: the nodes, then initial if it is new
CostKeys(nodeList, init) ==
    IF init \in Range(nodeList) THEN FirstOccurrences(nodeList)
    ELSE Append(FirstOccurrences(nodeList), init)

\* lines 27-28: costs = {node: inf ...}; costs[initial] = 0
InitialCosts(nodeList, init) ==
    [n \in Range(CostKeys(nodeList, init)) |-> IF n = init THEN 0 ELSE inf]

\* line 33: min(unvisited, key=unvisited.get): the first key, in dict
\* order, of minimum cost
MinNode(unv, cst) ==
    unv[CHOOSE i \in DOMAIN unv :
            /\ \A j \in DOMAIN unv : cst[unv[i]] <= cst[unv[j]]
            /\ \A j \in 1..(i - 1) : cst[unv[j]] > cst[unv[i]]]

\* the candidate cost of a neighbor, line 38
TestNeighborCost(edgeDict, cst, cur, neighbor) == edgeDict[<<cur, neighbor>>]

\* lines 39-41: the neighbor's cost and predecessor change when the
\* candidate cost is smaller; st = [costs, predecessors]
RelaxNeighbor(st, cur, neighbor, test) ==
    IF test < st.costs[neighbor]
    THEN [costs |-> [st.costs EXCEPT ![neighbor] = test],
          predecessors |->
              [n \in DOMAIN st.predecessors \cup {neighbor} |->
                 IF n = neighbor THEN cur ELSE st.predecessors[n]]]
    ELSE st

\* lines 36-41: the for loop over the neighbors of current_node.  Every
\* neighbor is a key of costs (the edges of the graphs built here join
\* nodes of the graph).
RECURSIVE Relax(_, _, _, _)
Relax(edgeDict, neighbors, cur, st) ==
    IF neighbors = <<>> THEN st
    ELSE Relax(edgeDict, Tail(neighbors), cur,
               RelaxNeighbor(st, cur, Head(neighbors),
                             TestNeighborCost(edgeDict, st.costs, cur,
                                              Head(neighbors))))

\* the list minus x (dict.pop keeps the order of the other keys)
RemoveNode(unv, x) == SelectSeq(unv, LAMBDA n : n /= x)

\* st = [costs, predecessors, unvisited] once cur is popped and r is what
\* the for loop left
Visited(st, cur, r) ==
    [costs |-> r.costs, predecessors |-> r.predecessors,
     unvisited |-> RemoveNode(st.unvisited, cur)]

\* lines 34-41 for current_node = cur
VisitFrom(edgeList, st, cur) ==
    Visited(st, cur,
            Relax(GraphEdges(edgeList), GraphNeighbors(edgeList, cur), cur,
                  [costs |-> st.costs, predecessors |-> st.predecessors]))

\* lines 32-41: one iteration of the while loop, on
\* st = [costs, predecessors, unvisited]
Visit(edgeList, st) == VisitFrom(edgeList, st, MinNode(st.unvisited, st.costs))

\* lines 31-41: the while loop
RECURSIVE MainLoop(_, _)
MainLoop(edgeList, st) ==
    IF st.unvisited = <<>> THEN st ELSE MainLoop(edgeList, Visit(edgeList, st))

\* lines 43-48: the backtrack from terminal.  The result is
\*   [status |-> "ok", path |-> the reversed trajectory], or
\*   [status |-> "KeyError"] when a node on the way has no predecessor, or
\*   [status |-> "loops"] when the predecessor links lead back to a node of
\*   the trajectory (the while loop of line 45 then never ends).
RECURSIVE Backtrack(_, _, _, _)
Backtrack(preds, init, cur, traj) ==
    IF cur = init THEN [status |-> "ok", path |-> Reverse(traj)]
    ELSE IF cur \notin DOMAIN preds THEN [status |-> "KeyError", path |-> <<>>]
    ELSE IF preds[cur] \in Range(traj) /\ preds[cur] /= init
         THEN [status |-> "loops", path |-> <<>>]
    ELSE Backtrack(preds, init, preds[cur], Append(traj, preds[cur]))

\* Graph(nodes, edges).shortest_path(initial, terminal)
shortest_path(nodeList, edgeList, init, term) ==
    Backtrack(MainLoop(edgeList,
                       [costs |-> InitialCosts(nodeList, init),
                        predecessors |-> <<>>,
                        unvisited |-> CostKeys(nodeList, init)]).predecessors,
              init, term, <<term>>)

(***************************************************************************)
(* numpy arrays of two dimensions: the shape and the rows.  Indices are    *)
(* 0-based in what the functions return and 1-based inside the sequences.  *)
(***************************************************************************)
Matrix(m, n, rows) == [shape |-> <<m, n>>, rows |-> rows]

\* np.array(list of rows); the rows of a cost matrix have equal lengths
ArrayOf(rows) ==
    Matrix(Len(rows), IF rows = <<>> THEN 0 ELSE Len(rows[1]), rows)

\* ndarray.transpose()
Transpose(M) ==
    Matrix(M.shape[2], M.shape[1],
           [j \in 1..M.shape[2] |-> [i \in 1..M.shape[1] |-> M.rows[i][j]]])

\* ndarray.argmin() of row s: the 0-based index of the first least entry
ArgMin(row) ==
    (CHOOSE j \in DOMAIN row :
        /\ \A k \in DOMAIN row : row[j] <= row[k]
        /\ \A k \in 1..(j - 1) : row[k] > row[j]) - 1

(***************************************************************************)
(* scipy.optimize.linear_sum_assignment, called at graph.py line 61: the   *)
(* shortest augmenting path algorithm of scipy's rectangular_lsap (solve   *)
(* and augmenting_path), on a cost matrix with no more rows than columns.  *)
(* 0 stands for scipy's -1 ("no row", "no column").                        *)
(***************************************************************************)
\* augmenting_path, inside the for loop: the reduced cost r of column j
\* replaces a longer path to j; a = [path, spc, lowest, index]
LsaShorten(a, i, j, r) ==
    IF r < a.spc[j] THEN [a EXCEPT !.path[j] = i, !.spc[j] = r] ELSE a

\* augmenting_path, inside the for loop: column j, at place it of
\* remaining, becomes the lowest; among equals a column with no row wins
LsaLowest(a, j, it, unassigned) ==
    IF a.spc[j] < a.lowest \/ (a.spc[j] = a.lowest /\ unassigned)
    THEN [a EXCEPT !.lowest = a.spc[j], !.index = it]
    ELSE a

\* augmenting_path: the for loop over the remaining columns
RECURSIVE LsaScan(_, _, _, _, _, _, _, _, _)
LsaScan(cost, u, v, row4col, minVal, i, remaining, it, a) ==
    IF it > Len(remaining) THEN a
    ELSE LsaScan(cost, u, v, row4col, minVal, i, remaining, it + 1,
                 LsaLowest(LsaShorten(a, i, remaining[it],
                                      minVal + cost[i][remaining[it]] - u[i]
                                          - v[remaining[it]]),
                           remaining[it], it, row4col[remaining[it]] = 0))

\* augmenting_path: the end of one round of the while loop, a being what
\* the for loop left; st = [path, spc, SR, SC, remaining, minVal, i, sink].
\* remaining[index] = remaining[--num_remaining] drops the chosen column.
LsaAdvance(row4col, st, a) ==
    LET j == st.remaining[a.index]
        num == Len(st.remaining)
    IN [path |-> a.path, spc |-> a.spc,
        SR |-> st.SR \cup {st.i}, SC |-> st.SC \cup {j},
        remaining |-> [k \in 1..(num - 1) |->
                         IF k = a.index THEN st.remaining[num]
                         ELSE st.remaining[k]],
        minVal |-> a.lowest,
        i |-> IF row4col[j] = 0 THEN st.i ELSE row4col[j],
        sink |-> IF row4col[j] = 0 THEN j ELSE 0]

\* augmenting_path: the while loop
RECURSIVE LsaAugmentingPath(_, _, _, _, _)
LsaAugmentingPath(cost, u, v, row4col, st) ==
    IF st.sink /= 0 THEN st
    ELSE LsaAugmentingPath(cost, u, v, row4col,
             LsaAdvance(row4col, st,
                 LsaScan(cost, u, v, row4col, st.minVal, st.i, st.remaining, 1,
                         [path |-> st.path, spc |-> st.spc,
                          lowest |-> inf, index |-> 0])))

\* augmenting_path: its state on entry; the columns are scanned from the
\* last to the first
LsaStart(path, nc, curRow) ==
    [path |-> path, spc |-> [j \in 1..nc |-> inf], SR |-> {}, SC |-> {},
     remaining |-> [it \in 1..nc |-> nc - it + 1],
     minVal |-> 0, i |-> curRow, sink |-> 0]

\* solve: "augment previous solution", on s = [col4row, row4col]
RECURSIVE LsaAugment(_, _, _, _)
LsaAugment(path, curRow, j, s) ==
    IF path[j] = curRow
    THEN [col4row |-> [s.col4row EXCEPT ![path[j]] = j],
          row4col |-> [s.row4col EXCEPT ![j] = path[j]]]
    ELSE LsaAugment(path, curRow, s.col4row[path[j]],
                    [col4row |-> [s.col4row EXCEPT ![path[j]] = j],
                     row4col |-> [s.row4col EXCEPT ![j] = path[j]]])

\* solve: the dual variables
LsaDualU(nr, curRow, s, p) ==
    [i \in 1..nr |->
       IF i = curRow THEN s.u[i] + p.minVal
       ELSE IF i \in p.SR THEN s.u[i] + p.minVal - p.spc[s.col4row[i]]
       ELSE s.u[i]]

LsaDualV(nc, s, p) ==
    [j \in 1..nc |->
       IF j \in p.SC THEN s.v[j] - (p.minVal - p.spc[j]) ELSE s.v[j]]

\* solve: s = [u, v, path, col4row, row4col] after row curRow, m being the
\* augmented matching
LsaNext(u, v, path, m) ==
    [u |-> u, v |-> v, path |-> path,
     col4row |-> m.col4row, row4col |-> m.row4col]

\* solve: the body of the for loop over the rows, p being what
\* augmenting_path returned
LsaUpdate(nr, nc, curRow, s, p) ==
    LsaNext(LsaDualU(nr, curRow, s, p), LsaDualV(nc, s, p), p.path,
            LsaAugment(p.path, curRow, p.sink,
                       [col4row |-> s.col4row, row4col |-> s.row4col]))

\* solve: the for loop over the rows
RECURSIVE LsaSolve(_, _, _, _, _)
LsaSolve(cost, nr, nc, curRow, s) ==
    IF curRow > nr THEN s
    ELSE LsaSolve(cost, nr, nc, curRow + 1,
             LsaUpdate(nr, nc, curRow, s,
                 LsaAugmentingPath(cost, s.u, s.v, s.row4col,
                                   LsaStart(s.path, nc, curRow))))

\* col4row of solve on an nr x nc matrix with nr <= nc
LsaCol4Row(rows, nr, nc) ==
    LsaSolve(rows, nr, nc, 1,
             [u |-> [i \in 1..nr |-> 0], v |-> [j \in 1..nc |-> 0],
              path |-> [j \in 1..nc |-> 0],
              col4row |-> [i \in 1..nr |-> 0],
              row4col |-> [j \in 1..nc |-> 0]]).col4row

\* the 0-based (row, column) pairs of col4row; solve hands back the pairs
\* of a transposed matrix swapped
LsaPairs(c4r, transposed) ==
    {IF transposed THEN <<c4r[i] - 1, i - 1>> ELSE <<i - 1, c4r[i] - 1>> :
       i \in DOMAIN c4r}

\* a matching that ignores the costs: row i with column i
DiagonalPairs(M) ==
    {<<k - 1, k - 1>> : k \in 1..(IF M.shape[1] < M.shape[2] THEN M.shape[1]
                                  ELSE M.shape[2])}

\* linear_sum_assignment(cost_matrix): the set of the matched 0-based
\* (row, column) pairs.  A matrix with more rows than columns is solved
\* transposed; one with no row or no column matches nothing.
linear_sum_assignment(M) ==
    IF M.shape[1] = 0 \/ M.shape[2] = 0 THEN {}
    ELSE IF M.shape[2] < M.shape[1]
    THEN LsaPairs(LsaCol4Row(Transpose(M).rows, M.shape[2], M.shape[1]), TRUE)
    ELSE LsaPairs(LsaCol4Row(M.rows, M.shape[1], M.shape[2]), FALSE)

(***************************************************************************)
(* graph.py: assign                                                        *)
(***************************************************************************)
\* a surplus row sent to the first column whatever its costs
FirstColumn(M, s, assignSurplus) == IF assignSurplus THEN 0 ELSE None

\* line 65: the column of a surplus row
SurplusColumn(M, s, assignSurplus) ==
    IF assignSurplus THEN ArgMin(M.rows[s + 1]) ELSE None

\* lines 62-66: the surplus rows get their columns, and the columns are
\* listed in row order
AssignRows(M, matched, assignSurplus) ==
    [r \in 1..M.shape[1] |->
       IF \E p \in matched : p[1] = r - 1
       THEN (CHOOSE p \in matched : p[1] = r - 1)[2]
       ELSE SurplusColumn(M, r - 1, assignSurplus)]

\* a pairing that ignores the costs: the first row with the last column,
\* the second with the one before, the rows past the columns as assign has
\* them
AntiDiagonal(M, assignSurplus) ==
    [r \in 1..M.shape[1] |->
       IF r <= M.shape[2] THEN M.shape[2] - r
       ELSE SurplusColumn(M, r - 1, assignSurplus)]

\* assign(cost_matrix, assign_surplus=assignSurplus) for a matrix with no
\* fewer rows than columns (line 59 raises ValueError otherwise): for each
\* row, in row order, its column.
assign(M, assignSurplus) ==
    AssignRows(M, linear_sum_assignment(M), assignSurplus)

\* line 59: the call raises ValueError
AssignRaises(M) == M.shape[1] < M.shape[2]

(***************************************************************************)
(* music.py: Chord.semitone_distance                                       *)
(***************************************************************************)
\* a distance that counts only the way down from s to o
DownwardDistance(s, o) == IF s > o THEN s - o ELSE 0

\* line 278: abs(s - o), Note.__sub__ being the difference of semitones
NoteDistance(s, o) == Abs(s - o)

\* lines 275-278: the cost matrix of two chords
SemitoneCostMatrix(self, oth) ==
    Matrix(Len(self), Len(oth),
           [row \in 1..Len(self) |-> [col \in 1..Len(oth) |->
               NoteDistance(self[row], oth[col])]])

\* sum(cost_matrix[row, col] for row, col in enumerate(assignments)
\*     if col is not None)
AssignedCost(M, assignments) ==
    SumSeq([r \in 1..Len(assignments) |->
              IF assignments[r] = None THEN 0
              ELSE M.rows[r][assignments[r] + 1]])

\* lines 281-282 and 1091-1092: the summed cost of what assign pairs
MatchedCost(M, assignSurplus) == AssignedCost(M, assign(M, assignSurplus))

\* lines 279-282, for two chords with at least one note each.  After the
\* loops row and col are the last indices, so `col > row` compares the
\* numbers of notes.
semitone_distance(self, oth) ==
    MatchedCost(IF Len(oth) - 1 > Len(self) - 1
                THEN Transpose(SemitoneCostMatrix(self, oth))
                ELSE SemitoneCostMatrix(self, oth), TRUE)

\* line 279 reads row and col, which the loops never bound when a chord
\* has no note: NameError
SemitoneDistanceRaises(self, oth) == self = <<>> \/ oth = <<>>

(***************************************************************************)
(* music.py: GuitarPosition.motion_distance with respect_fingers=False.    *)
(* A position is its positions_dict: the sequence, in the guitar's string  *)
(* order, of the <<string, fret>> items of the strings it sounds, a string *)
(* being its index in guitar.string_names.  Muted strings have no item.    *)
(***************************************************************************)
\* the Manhattan distance with no exception for open strings
ManhattanDistance(start, end) ==
    Abs(start[1] - end[1]) + Abs(start[2] - end[2])

\* lines 1095-1104: motion_helper
motion_helper(start, end) ==
    IF start[2] = 0 \/ end[2] = 0 THEN 0
    ELSE Abs(start[1] - end[1]) + Abs(start[2] - end[2])

\* lines 1085-1088
MotionCostMatrix(self, oth) ==
    Matrix(Len(self), Len(oth),
           [row \in 1..Len(self) |-> [col \in 1..Len(oth) |->
               motion_helper(self[row], oth[col])]])

\* lines 1085-1093
motion_distance(self, oth) ==
    MatchedCost(IF Len(self) < Len(oth)
                THEN Transpose(MotionCostMatrix(self, oth))
                ELSE MotionCostMatrix(self, oth), FALSE)

(***************************************************************************)
(* music.py: class Note, with its name.  A Python str is the sequence of   *)
(* its characters; a Note is the record of its fields, and a call that     *)
(* raises gives the record of the exception's name.                        *)
(***************************************************************************)
\* str.upper() on one character, for the letters of note names
Upper(c) ==
    CASE c = "a" -> "A" [] c = "b" -> "B" [] c = "c" -> "C" [] c = "d" -> "D"
      [] c = "e" -> "E" [] c = "f" -> "F" [] c = "g" -> "G" [] OTHER -> c

\* lines 42-50: the keys of Note.SEMITONE_MAPPER
SimpleNames == {"C", "D", "E", "F", "G", "A", "B"}

\* lines 42-50
SEMITONE_MAPPER(simple_name) ==
    CASE simple_name = "C" -> 0 [] simple_name = "D" -> 2
      [] simple_name = "E" -> 4 [] simple_name = "F" -> 5
      [] simple_name = "G" -> 7 [] simple_name = "A" -> 9
      [] simple_name = "B" -> 11

\* lines 51-57: the keys of Note.MODIFIER_MAPPER
Modifiers == {<<"b", "b">>, <<"b">>, <<>>, <<"#">>, <<"#", "#">>}

\* lines 51-57
MODIFIER_MAPPER(modifier) ==
    CASE modifier = <<"b", "b">> -> -2 [] modifier = <<"b">> -> -1
      [] modifier = <<>> -> 0 [] modifier = <<"#">> -> 1
      [] modifier = <<"#", "#">> -> 2

Raised(exception) == [status |-> exception]

\* lines 79-89: Note.parse_name
Note_parse_name(name) ==
    IF Len(name) > 3 THEN Raised("AssertionError")
    ELSE IF name = <<>> THEN Raised("IndexError")
    ELSE IF Upper(name[1]) \notin SimpleNames THEN Raised("AssertionError")
    ELSE IF Len(name) > 1 /\ Tail(name) \notin Modifiers
    THEN Raised("AssertionError")
    ELSE [status |-> "ok", simple_name |-> Upper(name[1]),
          modifier |-> Tail(name)]

\* lines 64-72: Note.__init__ on what parse_name returned
NoteOf(parsed, name, octave) ==
    IF parsed.status /= "ok" THEN parsed
    ELSE [status |-> "ok", simple_name |-> parsed.simple_name,
          modifier |-> parsed.modifier, name |-> name, octave |-> octave,
          semitones |-> 12 * octave + SEMITONE_MAPPER(parsed.simple_name)
                          + MODIFIER_MAPPER(parsed.modifier)]

\* lines 64-72: Note.__init__
Note(name, octave) == NoteOf(Note_parse_name(name), name, octave)

\* str() of a digit
DigitChar(d) == <<"0", "1", "2", "3", "4", "5", "6", "7", "8", "9">>[d + 1]

\* str() of a natural number
RECURSIVE Digits(_)
Digits(n) ==
    IF n < 10 THEN <<DigitChar(n)>>
    ELSE Digits(n \div 10) \o <<DigitChar(n % 10)>>

\* str() of an int
IntStr(n) == IF n < 0 THEN <<"-">> \o Digits(-n) ELSE Digits(n)

\* int() of one character: its value, or None for what is no digit
IntOfChar(c) ==
    CASE c = "0" -> 0 [] c = "1" -> 1 [] c = "2" -> 2 [] c = "3" -> 3
      [] c = "4" -> 4 [] c = "5" -> 5 [] c = "6" -> 6 [] c = "7" -> 7
      [] c = "8" -> 8 [] c = "9" -> 9 [] OTHER -> None

\* lines 146-147: Note.__repr__
Note_repr(self) == <<self.simple_name>> \o self.modifier \o IntStr(self.octave)

\* lines 120-122: Note.from_string
from_string(note) ==
    IF note = <<>> THEN Raised("IndexError")
    ELSE IF IntOfChar(note[Len(note)]) = None THEN Raised("ValueError")
    ELSE Note(SubSeq(note, 1, Len(note) - 1), IntOfChar(note[Len(note)]))

\* equality of the spelling: the same name at the same octave
SameSpelling(self, oth) == self.name = oth.name /\ self.octave = oth.octave

\* lines 149-150: Note.__eq__
Note_eq(self, oth) == self.semitones = oth.semitones

\* lines 152-153: Note.__lt__
Note_lt(self, oth) == self.semitones < oth.semitones

\* lines 161-162: Note.__hash__
Note_hash(self) == self.semitones

\* line 116: inverse_mapper
InverseMapper(remainder) ==
    CASE remainder = 0 -> "C" [] remainder = 2 -> "D" [] remainder = 4 -> "E"
      [] remainder = 5 -> "F" [] remainder = 7 -> "G" [] remainder = 9 -> "A"
      [] remainder = 11 -> "B"

\* lines 107-118: Note.from_semitones; bias is "b" or "#"
Note_from_semitones(semitones, bias) ==
    IF (semitones % 12) \in {SEMITONE_MAPPER(n) : n \in SimpleNames}
    THEN Note(<<InverseMapper(semitones % 12)>>, semitones \div 12)
    ELSE Note(<<InverseMapper(IF bias = "b" THEN (semitones % 12) + 1
                                            ELSE (semitones % 12) - 1),
                bias>>,
              semitones \div 12)

\* lines 124-127: Note.add_semitones; bias "None" (Python's None) is the
\* note's own modifier, or "b" for a note that has none
Note_add_semitones(self, semitones, bias) ==
    Note_from_semitones(
        self.semitones + semitones,
        IF bias /= "None" THEN bias
        ELSE IF self.modifier /= <<>> THEN self.modifier[1] ELSE "b")

\* lines 133, 140: bias = note[1] if len(note) > 1 else None
BiasOf(note) == IF Len(note) > 1 THEN note[2] ELSE "None"

\* the interval whatever allow_equal says
IntervalAsIs(interval, allow_equal) == interval

\* lines 135-136, 142-143
IntervalOf(interval, allow_equal) ==
    IF ~allow_equal /\ interval = 0 THEN 12 ELSE interval

\* lines 132-137: Note.nearest_above on the Note(note, 0) of the name
NearestAboveOf(self, named, note, allow_equal) ==
    IF named.status /= "ok" THEN named
    ELSE Note_add_semitones(
             self,
             IntervalOf((named.semitones - self.semitones) % 12, allow_equal),
             BiasOf(note))

\* lines 132-137: Note.nearest_above, with the name of the note
Note_nearest_above(self, note, allow_equal) ==
    NearestAboveOf(self, Note(note, 0), note, allow_equal)

\* lines 139-144: Note.nearest_below on the Note(note, 0) of the name
NearestBelowOf(self, named, note, allow_equal) ==
    IF named.status /= "ok" THEN named
    ELSE Note_add_semitones(
             self,
             -IntervalOf((self.semitones - named.semitones) % 12, allow_equal),
             BiasOf(note))

\* lines 139-144: Note.nearest_below
Note_nearest_below(self, note, allow_equal) ==
    NearestBelowOf(self, Note(note, 0), note, allow_equal)

(***************************************************************************)
(* music.py: Note, ChordName.  A note is its number of semitones above C0  *)
(* (Note.__eq__, __lt__, __sub__ and __hash__ read nothing else); a note   *)
(* name is the number of semitones of Note(name, 0), 0..11 for the names   *)
(* from_semitones produces.  note_set and constrained_powerset, which read *)
(* the names of the notes, take the Notes as records of the class Note.    *)
(***************************************************************************)
\* lines 129-134: Note.nearest_above(note), allow_equal being True
nearest_above(self, note) == self + ((note - self) % 12)

\* lines 321-344: QUALITY_SEMITONE_MAPPER
QUALITY_SEMITONE_MAPPER(quality) ==
    CASE quality = "" -> <<0, 4, 7>>
      [] quality = "maj" -> <<0, 4, 7>>
      [] quality = "M" -> <<0, 4, 7>>
      [] quality = "min" -> <<0, 3, 7>>
      [] quality = "m" -> <<0, 3, 7>>
      [] quality = "dim" -> <<0, 3, 6>>
      [] quality = "aug" -> <<0, 4, 8>>
      [] quality = "sus2" -> <<0, 2, 7>>
      [] quality = "sus4" -> <<0, 5, 7>>
      [] quality = "maj7" -> <<0, 4, 7, 11>>
      [] quality = "M7" -> <<0, 4, 7, 11>>
      [] quality = "7" -> <<0, 4, 7, 10>>
      [] quality = "minmaj7" -> <<0, 3, 7, 11>>
      [] quality = "mM7" -> <<0, 3, 7, 11>>
      [] quality = "mmaj7" -> <<0, 3, 7, 11>>
      [] quality = "minM7" -> <<0, 3, 7, 11>>
      [] quality = "min7" -> <<0, 3, 7, 10>>
      [] quality = "m7" -> <<0, 3, 7, 10>>
      [] quality = "m7b5" -> <<0, 3, 6, 10>>
      [] quality = "dim7" -> <<0, 3, 6, 9>>
      [] quality = "aug7" -> <<0, 4, 8, 10>>
      [] quality = "6" -> <<0, 4, 7, 9>>

\* lines 376-379: the names of the chord tones
QualityNoteNames(chord_note, quality) ==
    [k \in 1..Len(QUALITY_SEMITONE_MAPPER(quality)) |->
       (chord_note + QUALITY_SEMITONE_MAPPER(quality)[k]) % 12]

\* lines 1132-1135: _rotate_list
RotateList(list, n) ==
    IF n >= Len(list) THEN [status |-> "ValueError"]
    ELSE SubSeq(list, n + 1, Len(list)) \o SubSeq(list, 1, n)

\* lines 380-387: the last chord tone with the name of the root (same_name:
\* the same semitones modulo 12) comes first; a root that is no chord tone
\* is put in front
RootedNoteNames(names, root) ==
    IF \E k \in 1..Len(names) : names[k] % 12 = root % 12
    THEN RotateList(names,
                    (CHOOSE k \in 1..Len(names) :
                        /\ names[k] % 12 = root % 12
                        /\ \A l \in (k + 1)..Len(names) :
                              names[l] % 12 /= root % 12) - 1)
    ELSE <<root>> \o names

\* lines 372-395: ChordName(chord_name) for a name parsed into chord_note,
\* quality and root, with no extension
ChordName(chord_note, quality, root) ==
    [root |-> root,
     note_names |-> RootedNoteNames(QualityNoteNames(chord_note, quality), root),
     extension_names |-> <<>>]

\* lines 1149-1150: note_set of a list of Notes (records of the class Note).
\* A set of Notes is the set of their semitones, which is all that __eq__
\* and __hash__ read.
note_set(note_list) ==
    {Note(note.name, 0).semitones : note \in Range(note_list)}

\* the Note of a semitone index, named as from_semitones names it
NoteAt(n) == Note_from_semitones(n, "b")

RECURSIVE NotesAt(_)
NotesAt(ns) ==
    IF ns = <<>> THEN <<>> ELSE <<NoteAt(Head(ns))>> \o NotesAt(Tail(ns))

\* the semitones of a list of Notes
SemitonesOf(notes) == [k \in 1..Len(notes) |-> notes[k].semitones]

\* sorted(notes)
RECURSIVE SortNotes(_)
SortNotes(notes) ==
    IF notes = <<>> THEN <<>>
    ELSE SelectSeq(SortNotes(Tail(notes)), LAMBDA n : n < Head(notes))
         \o <<Head(notes)>>
         \o SelectSeq(SortNotes(Tail(notes)), LAMBDA n : n >= Head(notes))

\* lines 181-182: Chord(notes)
Chord(notes) == SortNotes(notes)

\* the concatenation of a sequence of sequences
RECURSIVE Chain(_)
Chain(lists) ==
    IF lists = <<>> THEN <<>> ELSE Head(lists) \o Chain(Tail(lists))

\* every c with x in front
Prepend(x, combs) == [k \in 1..Len(combs) |-> <<x>> \o combs[k]]

\* itertools.combinations(list, r), in its order
RECURSIVE combinations(_, _)
combinations(list, r) ==
    IF r = 0 THEN << <<>> >>
    ELSE IF list = <<>> THEN <<>>
    ELSE Prepend(Head(list), combinations(Tail(list), r - 1))
         \o combinations(Tail(list), r)

\* itertools.combinations_with_replacement(list, r), in its order
RECURSIVE combinations_with_replacement(_, _)
combinations_with_replacement(list, r) ==
    IF r = 0 THEN << <<>> >>
    ELSE IF list = <<>> THEN <<>>
    ELSE Prepend(Head(list), combinations_with_replacement(list, r - 1))
         \o combinations_with_replacement(Tail(list), r)

\* lines 1168-1170: func(note_list, r) for r in range(max_len + 1), chained
Powerset(note_list, max_len, allow_identical) ==
    Chain([k \in 1..(max_len + 1) |->
             IF allow_identical
             THEN combinations_with_replacement(note_list, k - 1)
             ELSE combinations(note_list, k - 1)])

\* lines 1171-1174: the filter
ConstrainedSubset(powerset, required_notes, allow_repeats) ==
    SelectSeq(powerset,
              LAMBDA c : /\ required_notes \subseteq note_set(c)
                         /\ allow_repeats \/ Cardinality(note_set(c)) = Len(c))

\* lines 1153-1175: constrained_powerset of a list of Notes; a max_len of 0
\* stands for the length of note_list and no required note for all the
\* names of note_list; required_notes is a set of Notes as note_set gives it
constrained_powerset(note_list, max_len, required_notes, allow_repeats, allow_identical) ==
    ConstrainedSubset(
        Powerset(note_list, IF max_len = 0 THEN Len(note_list) ELSE max_len,
                 allow_identical),
        IF required_notes = {} THEN note_set(note_list) ELSE required_notes,
        allow_repeats)

\* line 455
MaxOctaves(lowerNote, upperNote) == (upperNote - lowerNote) \div 12 + 1

\* line 456: root_notes
RootNotes(root, lowerNote, max_octaves) ==
    [o \in 1..max_octaves |-> nearest_above(lowerNote, root) + 12 * (o - 1)]

\* lines 458-469: lower.nearest_above(name) raised by each octave of
\* range(first, max_octaves), octave by octave, the ones above upper left out
PossibleNotes(names, lowerNote, upperNote, first, max_octaves) ==
    SelectSeq(
        [k \in 1..((max_octaves - first) * Len(names)) |->
           nearest_above(lowerNote, names[((k - 1) % Len(names)) + 1])
               + 12 * (first + ((k - 1) \div Len(names)))],
        LAMBDA n : n <= upperNote)

\* lines 476-481: note_list, upper_ being min(ext) if ext else upper
NoteList(possible_notes, root_note, upper_, allow_repeats, allow_identical) ==
    SelectSeq(possible_notes,
              LAMBDA x :
                  IF allow_identical THEN root_note <= x /\ x <= upper_
                  ELSE IF allow_repeats THEN root_note < x /\ x <= upper_
                  ELSE root_note < x /\ x <= upper_
                       /\ x % 12 /= root_note % 12)

\* lines 470-472: extensions, every tuple as the semitones of its Notes
Extensions(subsets) == [k \in 1..Len(subsets) |-> SemitonesOf(subsets[k])]

\* lines 490-493: the chords of one root note and one tuple of extensions
ChordsOf(root_note, mid_notes_list, ext) ==
    [k \in 1..Len(mid_notes_list) |->
       Chord(<<root_note>> \o SemitonesOf(mid_notes_list[k]) \o ext)]

\* lines 474-493: one round of the loop over product(root_notes, extensions)
ChordsFor(self, root_note, ext, possible_notes, upperNote, max_notes, allow_repeats, allow_identical) ==
    ChordsOf(root_note,
             constrained_powerset(
                 NotesAt(NoteList(possible_notes, root_note,
                                  IF ext = <<>> THEN upperNote ELSE Min(Range(ext)),
                                  allow_repeats, allow_identical)),
                 max_notes - 1 - Len(ext),
                 Range(Tail(self.note_names)),
                 allow_repeats, allow_identical),
             ext)

\* lines 473-493: the loop over product(root_notes, extensions)
ChordList(self, root_notes, extensions, possible_notes, upperNote, max_notes, allow_repeats, allow_identical) ==
    Chain([k \in 1..(Len(root_notes) * Len(extensions)) |->
             ChordsFor(self,
                       root_notes[((k - 1) \div Len(extensions)) + 1],
                       extensions[((k - 1) % Len(extensions)) + 1],
                       possible_notes, upperNote, max_notes,
                       allow_repeats, allow_identical)])

\* lines 441-493: ChordName.get_all_chords; max_notes = 0 stands for None
get_all_chords(self, lowerNote, upperNote, max_notes, allow_repeats, allow_identical) ==
    ChordList(self,
              RootNotes(self.root, lowerNote, MaxOctaves(lowerNote, upperNote)),
              Extensions(
                  constrained_powerset(
                      NotesAt(PossibleNotes(self.extension_names, lowerNote,
                                            upperNote, 1,
                                            MaxOctaves(lowerNote, upperNote))),
                      Len(self.extension_names), {}, FALSE, FALSE)),
              PossibleNotes(self.note_names, lowerNote, upperNote, 0,
                            MaxOctaves(lowerNote, upperNote)),
              upperNote,
              IF max_notes = 0
              THEN Len(self.note_names) + Len(self.extension_names)
              ELSE max_notes,
              allow_repeats, allow_identical)

(***************************************************************************)
(* music.py: Guitar, GuitarPosition, Chord.guitar_positions.  A guitar is  *)
(* [tuning, frets]: the notes of its strings above the capo, in string     *)
(* order, and the number of frets left above the capo.                     *)
(***************************************************************************)
\* line 16
DEFAULT_MAX_FRET_SPAN == 4

\* line 803: Guitar.lowest
GuitarLowest(g) == Min(Range(g.tuning))

\* line 804: Guitar.highest
GuitarHighest(g) == -Min({-n : n \in Range(g.tuning)}) + g.frets

\* lines 782-804: Guitar.__init__ with a custom tuning; the constructor
\* checks neither frets nor capo
Guitar(open_tuning, frets, capo) ==
    [capo |-> capo,
     tuning |-> [i \in 1..Len(open_tuning) |-> open_tuning[i] + capo],
     frets |-> frets - capo,
     lowest |-> GuitarLowest([tuning |-> [i \in 1..Len(open_tuning) |->
                                            open_tuning[i] + capo],
                              frets |-> frets - capo]),
     highest |-> GuitarHighest([tuning |-> [i \in 1..Len(open_tuning) |->
                                              open_tuning[i] + capo],
                                frets |-> frets - capo])]

\* sorted(...) of pairs: by the first member, then by the second
RECURSIVE SortedPairs(_)
SortedPairs(S) ==
    IF S = {} THEN <<>>
    ELSE LET least == CHOOSE x \in S :
                         \A y \in S : x[1] < y[1] \/ (x[1] = y[1] /\ x[2] <= y[2])
         IN  <<least>> \o SortedPairs(S \ {least})

\* the frets of a mapping, a list of <<string, fret>>
FretsOf(p) == {item[2] : item \in Range(p)}

\* lines 886-890: positions_dict, the items of positions whose string is a
\* string of the guitar, in the order of the strings.  A string is its
\* index in guitar.string_names; any other number stands for a key of
\* positions that names no string of the guitar.
positions_dict(p, g) ==
    SortedPairs({item \in Range(p) : item[1] \in 0..(Len(g.tuning) - 1)})

\* positions_dict.items() as a set
DictItems(p, g) == {item \in Range(p) : item[1] \in 0..(Len(g.tuning) - 1)}

\* lines 878-883: lowest_fret over the values of positions (the strings
\* that are not on the guitar included), None for no string
lowest_fret(p) ==
    IF p = <<>> THEN None
    ELSE IF FretsOf(p) = {0} THEN 0
    ELSE Min(FretsOf(p) \ {0})

\* the span from the lowest fret to the highest, open strings counted
SpanOfAll(p) ==
    IF p = <<>> THEN None
    ELSE -Min({-f : f \in FretsOf(p)}) - Min(FretsOf(p)) + 1

\* lines 878-887: fret_span over the values of positions, None for no string
fret_span(p) ==
    IF p = <<>> THEN None
    ELSE -Min({-f : f \in FretsOf(p)}) - lowest_fret(p) + 1

\* positions_dict.get(string, -1) of lines 895-910: the fret of string st, -1
\* for a string the mapping leaves out
FretOrMuted(p, st) ==
    IF \E item \in Range(p) : item[1] = st
    THEN (CHOOSE item \in Range(p) : item[1] = st)[2]
    ELSE -1

\* lines 895-906: the indices of the open, muted and fretted strings
open_strings(p, g) ==
    {st \in 0..(Len(g.tuning) - 1) : FretOrMuted(p, st) = 0}

muted_strings(p, g) ==
    {st \in 0..(Len(g.tuning) - 1) : FretOrMuted(p, st) = -1}

fretted_strings(p, g) ==
    {st \in 0..(Len(g.tuning) - 1) : FretOrMuted(p, st) > 0}

\* lines 907-910; no string compares equal to the None of an empty mapping
lowest_fret_strings(p, g) ==
    IF p = <<>> THEN {}
    ELSE {st \in 0..(Len(g.tuning) - 1) : FretOrMuted(p, st) = lowest_fret(p)}

\* lines 913-916: five stopped strings and
\* positions_dict.get(string_names[0], -1) == lowest_fret
use_thumb(p, g) ==
    /\ Cardinality(fretted_strings(p, g)) = 5
    /\ FretOrMuted(p, 0) = lowest_fret(p)

\* the conditions of a barre but for the thumb
BarreWithThumb(p, g) ==
    /\ Cardinality(fretted_strings(p, g)) > 4
    /\ open_strings(p, g) = {}
    /\ Cardinality(lowest_fret_strings(p, g)) > 1
    /\ ~\E st \in muted_strings(p, g) \cup open_strings(p, g) :
          /\ \E lo \in lowest_fret_strings(p, g) : lo < st
          /\ \E hi \in lowest_fret_strings(p, g) : st < hi

\* lines 918-930
barre(p, g) ==
    /\ Cardinality(fretted_strings(p, g)) > 4
    /\ open_strings(p, g) = {}
    /\ Cardinality(lowest_fret_strings(p, g)) > 1
    /\ ~use_thumb(p, g)
    /\ ~\E st \in muted_strings(p, g) \cup open_strings(p, g) :
          /\ \E lo \in lowest_fret_strings(p, g) : lo < st
          /\ \E hi \in lowest_fret_strings(p, g) : st < hi

\* playable whenever the span fits
PlayableWithinSpan(p, g, max_fret_span) ==
    fret_span(p) /= None /\ fret_span(p) <= max_fret_span

\* lines 1000-1024: is_playable
is_playable(p, g, max_fret_span) ==
    IF fret_span(p) = None THEN FALSE
    ELSE IF fret_span(p) > max_fret_span THEN FALSE
    ELSE IF Cardinality(fretted_strings(p, g)) <= 4 THEN TRUE
    ELSE IF use_thumb(p, g) THEN TRUE
    ELSE IF ~barre(p, g) THEN FALSE
    ELSE IF Cardinality({item[2] : item \in DictItems(p, g)}) > 4 THEN FALSE
    ELSE IF Cardinality({item \in DictItems(p, g) :
                            item[2] > lowest_fret(p)}) > 3
    THEN FALSE
    ELSE Cardinality({item \in DictItems(p, g) :
                         item[2] = lowest_fret(p)}) /= 1

\* line 946: redundant
redundant(p, g) ==
    \A item \in DictItems(p, g) : item[2] /= 0 => item[2] >= 12

\* lines 987-998: _max_interior_gap, the longest run of strings that are not
\* stopped from the first stopped string up to the last, the last left out
RECURSIVE InteriorGap(_, _, _, _, _)
InteriorGap(p, i, last, gap, max_gap) ==
    IF i >= last THEN max_gap
    ELSE IF \E item \in Range(p) : item[1] = i /\ item[2] /= 0
    THEN InteriorGap(p, i + 1, last, 0, max_gap)
    ELSE InteriorGap(p, i + 1, last, gap + 1,
                     IF gap + 1 > max_gap THEN gap + 1 ELSE max_gap)

max_interior_gap(p, g) ==
    IF fretted_strings(p, g) = {} THEN 0
    ELSE InteriorGap(p, Min(fretted_strings(p, g)),
                     -Min({-st : st \in fretted_strings(p, g)}), 0, 0)

\* lines 911-918 and 935-939: fingers_dict before the fingers are handed
\* out, the thumb on the first string and finger 1 on the barred strings
FirstFingers(p, g) ==
    LET barred == barre(p, g)
        strings == (IF use_thumb(p, g) THEN {0} ELSE {})
                     \cup (IF barred
                           THEN Min(lowest_fret_strings(p, g))
                                  ..(-Min({-x : x \in lowest_fret_strings(p, g)}))
                           ELSE {})
    IN  IF barred THEN [st \in strings |-> "1"] ELSE [st \in strings |-> "T"]

\* lines 940, 943: available_fingers
available_fingers(p, g) == IF barre(p, g) THEN <<2, 3, 4>> ELSE <<1, 2, 3, 4>>

\* lines 972-985: the <<fret, string>> pairs that still need a finger
PositionsToSort(p, g, fingers) ==
    LET barred == barre(p, g)
        lowest == lowest_fret(p)
    IN  {<<item[2], item[1]>> : item \in
            {x \in DictItems(p, g) :
                /\ x[2] > 0
                /\ ~(\/ x[1] \in DOMAIN fingers /\ fingers[x[1]] = "T"
                     \/ /\ barred
                        /\ x[1] \in DOMAIN fingers /\ fingers[x[1]] = "1"
                        /\ x[2] = lowest)}}

\* the whole gap skipped at every position
SkipWholeGap(fret_gap, finger, excess_fingers, finger_skip) ==
    finger_skip + fret_gap

\* lines 959-961: finger_skip after the test of one position
NextFingerSkip(fret_gap, finger, excess_fingers, finger_skip) ==
    IF fret_gap >= finger /\ excess_fingers > finger_skip
    THEN finger_skip + Min({fret_gap - 1, excess_fingers})
    ELSE finger_skip

\* lines 956-963: the loop over zip(sorted_positions, available_fingers)
RECURSIVE HandOutFingers(_, _, _, _, _, _)
HandOutFingers(sorted_positions, available, lowest, k, finger_skip, fingers) ==
    IF k > Len(sorted_positions) \/ k > Len(available) THEN fingers
    ELSE HandOutFingers(
             sorted_positions, available, lowest, k + 1,
             NextFingerSkip(sorted_positions[k][1] - lowest, available[k],
                            Len(available) - Len(sorted_positions), finger_skip),
             (sorted_positions[k][2] :>
                  ToString(available[k]
                           + NextFingerSkip(sorted_positions[k][1] - lowest,
                                            available[k],
                                            Len(available) - Len(sorted_positions),
                                            finger_skip)))
             @@ fingers)

\* lines 911-963: fingers_dict, from string index to finger
fingers_dict(p, g) ==
    LET first == FirstFingers(p, g)
    IN  HandOutFingers(SortedPairs(PositionsToSort(p, g, first)),
                       available_fingers(p, g), lowest_fret(p), 1, 0, first)

\* lines 934 and 968-970: playable, is_playable unless fewer fingers than
\* stopped strings were handed out
playable(p, g, max_fret_span) ==
    /\ is_playable(p, g, max_fret_span)
    /\ ~(Cardinality(DOMAIN fingers_dict(p, g))
           < Cardinality(fretted_strings(p, g)))

\* line 877: valid
valid(p, g) == \A item \in Range(p) : 0 <= item[2] /\ item[2] <= g.frets

\* lines 868-970: GuitarPosition(positions, guitar=g, max_fret_span=...).
\* Lines 964-967 read positions_dict[string] for every string of
\* fingers_dict: a KeyError when the thumb or the barre has put a finger on
\* a string that positions leaves out.  Lines 934 and 968-970: playable is
\* is_playable unless fewer fingers than stopped strings were handed out.
GuitarPosition(p, g, max_fret_span) ==
    LET fingers == fingers_dict(p, g)
        playable_at_first == is_playable(p, g, max_fret_span)
    IN  IF \E st \in DOMAIN fingers : \A item \in DictItems(p, g) : item[1] /= st
        THEN [status |-> "KeyError"]
        ELSE [positions_dict |-> positions_dict(p, g),
              valid |-> valid(p, g),
              lowest_fret |-> lowest_fret(p),
              fret_span |-> fret_span(p),
              open_strings |-> open_strings(p, g),
              muted_strings |-> muted_strings(p, g),
              fretted_strings |-> fretted_strings(p, g),
              use_thumb |-> use_thumb(p, g),
              max_interior_gap |-> max_interior_gap(p, g),
              barre |-> barre(p, g),
              is_playable |-> playable_at_first,
              playable |-> /\ playable_at_first
                           /\ ~(Cardinality(DOMAIN fingers)
                                  < Cardinality(fretted_strings(p, g))),
              redundant |-> redundant(p, g),
              fingers_dict |-> fingers]

\* the strings at or below the note, however many frets up it lies
StringsBelow(note, g) ==
    SelectSeq([k \in 1..Len(g.tuning) |-> k - 1],
              LAMBDA st : note >= g.tuning[st + 1])

\* lines 94-100: the strings a note can be played on, valid_only being True
ValidStrings(note, g) ==
    SelectSeq([k \in 1..Len(g.tuning) |-> k - 1],
              LAMBDA st : /\ note >= g.tuning[st + 1]
                          /\ note - g.tuning[st + 1] <= g.frets)

\* itertools.product(*lists), in its order
RECURSIVE Product(_)
Product(lists) ==
    IF lists = <<>> THEN << <<>> >>
    ELSE Chain([k \in 1..Len(Head(lists)) |->
                  Prepend(Head(lists)[k], Product(Tail(lists)))])

\* lines 214-219: the combinations of strings, one string per note
ValidCombinations(notes, g) ==
    SelectSeq(Product([k \in 1..Len(notes) |-> ValidStrings(notes[k], g)]),
              LAMBDA comb : Cardinality(Range(comb)) = Len(notes))

\* the strings of comb in the order of the guitar
StringsInOrder(comb, g) ==
    SelectSeq([k \in 1..Len(g.tuning) |-> k - 1], LAMBDA st : st \in Range(comb))

\* lines 223-229 and 883-887: the positions_dict of a combination
PositionOf(notes, comb, g) ==
    [j \in 1..Cardinality(Range(comb)) |->
       <<StringsInOrder(comb, g)[j],
         notes[IndexOf(comb, StringsInOrder(comb, g)[j])]
             - g.tuning[StringsInOrder(comb, g)[j] + 1]>>]

\* the positions in the order they were found
Unsorted(ps) == ps

\* sorted(positions, key=fret_span), which keeps the order of equal spans
RECURSIVE SortByFretSpan(_)
SortByFretSpan(ps) ==
    IF ps = <<>> THEN <<>>
    ELSE SelectSeq(SortByFretSpan(Tail(ps)),
                   LAMBDA q : fret_span(q) < fret_span(Head(ps)))
         \o <<Head(ps)>>
         \o SelectSeq(SortByFretSpan(Tail(ps)),
                      LAMBDA q : fret_span(q) >= fret_span(Head(ps)))

\* lines 192-235: Chord.guitar_positions
guitar_positions(notes, g, max_fret_span, include_unplayable, allow_thumb) ==
    SortByFretSpan(
        SelectSeq([k \in 1..Len(ValidCombinations(notes, g)) |->
                     PositionOf(notes, ValidCombinations(notes, g)[k], g)],
                  LAMBDA q :
                      /\ (playable(q, g, max_fret_span) /\ ~redundant(q, g))
                            \/ include_unplayable
                      /\ allow_thumb \/ ~use_thumb(q, g)))

\* lines 1200-1203: the positions of the chords, chord after chord
PositionsOfChords(chords, g, max_fret_span, allow_thumb) ==
    Chain([k \in 1..Len(chords) |->
             guitar_positions(chords[k], g, max_fret_span, TRUE, allow_thumb)])

\* lines 1178-1204: get_all_guitar_positions_for_chord_name, parallel being
\* False
get_all_guitar_positions_for_chord_name(chord_name, g, allow_repeats, allow_identical, max_fret_span, allow_thumb) ==
    PositionsOfChords(
        get_all_chords(chord_name, GuitarLowest(g), GuitarHighest(g),
                       Len(g.tuning), allow_repeats, allow_identical),
        g, max_fret_span, allow_thumb)

\* lines 219-228, 934, 1004: what a call of Chord.guitar_positions with
\* include_unplayable=True comes to.  With max_fret_span None the first
\* position constructed raises TypeError at 'self.fret_span > max_fret_span';
\* a chord without a valid combination constructs none.
GuitarPositionsCall(notes, g, max_fret_span, allow_thumb) ==
    IF /\ max_fret_span = None
       /\ \E k \in 1..Len(ValidCombinations(notes, g)) :
             ValidCombinations(notes, g)[k] /= <<>>
    THEN [status |-> "TypeError"]
    ELSE [status |-> "ok",
          value |-> guitar_positions(notes, g, max_fret_span, TRUE, allow_thumb)]

\* lines 1207-1211: _parallel_helper
parallel_helper(notes, g, allow_thumb, max_fret_span) ==
    GuitarPositionsCall(notes, g, max_fret_span, allow_thumb)

\* lines 1200-1203: the loop of the sequential run from chord k on; a call
\* that raises ends it
RECURSIVE SequentialPositions(_, _, _, _, _, _)
SequentialPositions(cs, k, g, max_fret_span, allow_thumb, positions) ==
    IF k > Len(cs) THEN [status |-> "ok", value |-> positions]
    ELSE IF GuitarPositionsCall(cs[k], g, max_fret_span, allow_thumb).status /= "ok"
    THEN GuitarPositionsCall(cs[k], g, max_fret_span, allow_thumb)
    ELSE SequentialPositions(
             cs, k + 1, g, max_fret_span, allow_thumb,
             positions \o GuitarPositionsCall(cs[k], g, max_fret_span,
                                              allow_thumb).value)

\* a task of the pool that no worker has begun
Pending == [status |-> "pending"]

\* a task of the pool that a worker is running
Running == [status |-> "running"]

\* Pool.map: the tasks that raised
FailedTasks(outcomes) ==
    {k \in 1..Len(outcomes) :
        outcomes[k].status \notin {"ok", "pending", "running"}}

\* Pool.map without a chunksize: the chords are handed out in chunks of
\* ceil(len / (4 * processes)) chords, none for an empty list
ChunkSize(n, processes) ==
    IF n = 0 THEN 0
    ELSE (n \div (4 * processes))
         + (IF n % (4 * processes) = 0 THEN 0 ELSE 1)

\* the chunk of task k, chunks and tasks counted from 1
ChunkOf(k, size) == ((k - 1) \div size) + 1

FirstTaskOf(c, size) == (c - 1) * size + 1

TasksOf(c, n, size) == {k \in 1..n : ChunkOf(k, size) = c}

\* a worker has taken the chunk
ChunkStarted(outcomes, c, size) == outcomes[FirstTaskOf(c, size)] /= Pending

\* a worker runs a chunk as list(map(func, chunk)): the chunk is over when
\* a task raised, the tasks after it never being run, or when all returned
ChunkDone(outcomes, c, size) ==
    \/ \E k \in TasksOf(c, Len(outcomes), size) : k \in FailedTasks(outcomes)
    \/ \A k \in TasksOf(c, Len(outcomes), size) : outcomes[k].status = "ok"

\* the chunks a worker is running
ChunksRunning(outcomes, size) ==
    {c \in 1..(IF size = 0 THEN 0 ELSE ChunkOf(Len(outcomes), size)) :
        ChunkStarted(outcomes, c, size) /\ ~ChunkDone(outcomes, c, size)}

\* chunk c is the next of the queue and a worker is free to take it
NextChunk(outcomes, c, size, processes) ==
    /\ FirstTaskOf(c, size) <= Len(outcomes)
    /\ ~ChunkStarted(outcomes, c, size)
    /\ IF c = 1 THEN TRUE ELSE ChunkStarted(outcomes, c - 1, size)
    /\ Cardinality(ChunksRunning(outcomes, size)) < processes

\* task k is over with outcome o: the worker goes on to the next task of
\* the chunk unless k raised or was the last of the chunk
AfterTask(outcomes, k, o, size) ==
    [j \in 1..Len(outcomes) |->
       IF j = k THEN o
       ELSE IF j = k + 1 /\ o.status = "ok" /\ ChunkOf(j, size) = ChunkOf(k, size)
       THEN Running
       ELSE outcomes[j]]

\* every chunk is over
AllChunksDone(outcomes, size) ==
    \A k \in 1..Len(outcomes) : ChunkDone(outcomes, ChunkOf(k, size), size)

\* the lists of the tasks, the last chord first
LastChordFirst(outcomes) ==
    Chain([k \in 1..Len(outcomes) |-> outcomes[Len(outcomes) + 1 - k].value])

\* line 1198: positions = [pos for poss in nested for pos in poss]
FlattenNested(outcomes) ==
    Chain([k \in 1..Len(outcomes) |-> outcomes[k].value])

(***************************************************************************)
(* music.py: ChordProgression.  A progression is the list of its chord     *)
(* names.  A node of the graph is <<i, c>>, c being a chord or a position  *)
(* and <<>> standing for the None of the initial and terminal nodes.       *)
(***************************************************************************)
\* lines 525, 589: the candidates of every stage, each with its index
CandidatesFlat(candidates) ==
    Chain([i \in 1..Len(candidates) |->
             [k \in 1..Len(candidates[i]) |-> <<i - 1, candidates[i][k]>>]])

\* lines 526, 590
InitialNode == <<-1, <<>>>>

\* lines 527, 590
TerminalNode(n_chords) == <<n_chords, <<>>>>

\* lines 528, 591
ProgressionNodes(candidates) ==
    <<InitialNode>> \o CandidatesFlat(candidates)
        \o <<TerminalNode(Len(candidates))>>

\* lines 530-533, 593-596
InitialEdges(candidates) ==
    [k \in 1..Len(candidates[1]) |-> Edge(InitialNode, <<0, candidates[1][k]>>, 0)]

\* lines 534-537, 597-600
TerminalEdges(candidates) ==
    [k \in 1..Len(candidates[Len(candidates)]) |->
       Edge(<<Len(candidates) - 1, candidates[Len(candidates)][k]>>,
            TerminalNode(Len(candidates)), 0)]

\* lines 541, 607: the weight of an edge between two stages, distance naming
\* the method that measures it
EdgeWeight(distance, start, end) ==
    IF distance = "semitone_distance"
    THEN semitone_distance(start, end)
    ELSE motion_distance(start, end)

\* lines 540-542, 603-609: the edges of stage i (0-based) to the next one,
\* in the order of product(v, v_next)
StageEdges(i, v, v_next, distance) ==
    [k \in 1..(Len(v) * Len(v_next)) |->
       Edge(<<i, v[((k - 1) \div Len(v_next)) + 1]>>,
            <<i + 1, v_next[((k - 1) % Len(v_next)) + 1]>>,
            EdgeWeight(distance, v[((k - 1) \div Len(v_next)) + 1],
                       v_next[((k - 1) % Len(v_next)) + 1]))]

\* lines 538-543, 601-610
ProgressionEdges(candidates, distance) ==
    InitialEdges(candidates)
        \o Chain([i \in 1..(Len(candidates) - 1) |->
                    StageEdges(i - 1, candidates[i], candidates[i + 1], distance)])
        \o TerminalEdges(candidates)

\* lines 543-544, 611-612: the shortest path of the graph of the candidates
ProgressionPath(candidates, distance) ==
    shortest_path(ProgressionNodes(candidates),
                  ProgressionEdges(candidates, distance),
                  InitialNode, TerminalNode(Len(candidates)))

\* lines 545, 613: [c for _, c in prog[1:-1]]
Interior(path) == [k \in 1..(Len(path) - 2) |-> path[k + 1][2]]

\* lines 518-521: voicings
Voicings(chords, lowerNote, upperNote) ==
    [i \in 1..Len(chords) |->
       get_all_chords(chords[i], lowerNote, upperNote, 0, FALSE, FALSE)]

\* lines 550-553: motion
Motion(prog) ==
    SumSeq([i \in 1..(Len(prog) - 1) |-> semitone_distance(prog[i], prog[i + 1])])

\* lines 548-558: the motion of every progression of product(*voicings)
Motions(progs) == [k \in 1..Len(progs) |-> Motion(progs[k])]

\* lines 559-560: sorted keeps the order of equal motions, so motions[0] is
\* the first progression of the least motion
FirstLeast(motions) ==
    CHOOSE k \in 1..Len(motions) :
        \A j \in 1..Len(motions) :
            /\ motions[k] <= motions[j]
            /\ j < k => motions[j] /= motions[k]

\* lines 547-560: the brute-force search, every stage having a voicing
BruteForce(voicings) ==
    Product(voicings)[FirstLeast(Motions(Product(voicings)) \o <<>>)]

\* lines 517-560: how optimal_voice_leading ends.  With use_dijkstra,
\* voicings[0] raises IndexError for no chord and the backtrack raises
\* KeyError when it meets a node with no predecessor; without, motions[0]
\* raises IndexError when a chord has no voicing.
VoiceLeadingOutcome(voicings, useDijkstra) ==
    IF useDijkstra
    THEN IF voicings = <<>> THEN "IndexError"
         ELSE ProgressionPath(voicings, "semitone_distance").status
    ELSE IF \E i \in 1..Len(voicings) : voicings[i] = <<>> THEN "IndexError"
         ELSE "ok"

\* lines 517-560: what optimal_voice_leading returns when it returns
optimal_voice_leading(chords, lowerNote, upperNote, useDijkstra) ==
    IF useDijkstra
    THEN Interior(ProgressionPath(Voicings(chords, lowerNote, upperNote),
                                  "semitone_distance").path)
    ELSE BruteForce(Voicings(chords, lowerNote, upperNote))

\* lines 571-584: the playable positions of every chord that are not
\* redundant
PlayablePositions(chords, g, allow_repeats, allow_identical, allow_thumb) ==
    [i \in 1..Len(chords) |->
       SelectSeq(get_all_guitar_positions_for_chord_name(
                     chords[i], g, allow_repeats, allow_identical,
                     DEFAULT_MAX_FRET_SPAN, allow_thumb),
                 LAMBDA q : playable(q, g, DEFAULT_MAX_FRET_SPAN)
                            /\ ~redundant(q, g))]

\* lines 585-613: how optimal_guitar_positions ends; positions[0] raises
\* IndexError for no chord
GuitarPositionsOutcome(positions) ==
    IF \E i \in 1..Len(positions) : positions[i] = <<>> THEN "ok"
    ELSE IF positions = <<>> THEN "IndexError"
    ELSE ProgressionPath(positions, "motion_distance").status

\* lines 585-613, respect_fingers being False
OptimalPositions(positions) ==
    IF \E i \in 1..Len(positions) : positions[i] = <<>> THEN <<>>
    ELSE Interior(ProgressionPath(positions, "motion_distance").path)

\* lines 562-613: what optimal_guitar_positions returns when it returns
optimal_guitar_positions(chords, g, allow_repeats, allow_identical, allow_thumb) ==
    OptimalPositions(PlayablePositions(chords, g, allow_repeats,
                                       allow_identical, allow_thumb))

(***************************************************************************)
(* SpecGraph: Graph.shortest_path run one loop iteration at a time on      *)
(* every graph over NumNodes nodes whose edges weigh 0..MaxWeight.         *)
(***************************************************************************)
GraphNodeList == [i \in 1..NumNodes |-> i]

NodePairs == {p \in (1..NumNodes) \X (1..NumNodes) : p[1] /= p[2]}

\* the edge list of a weight assignment w (inf: no edge), in the order of
\* the pairs
RECURSIVE EdgeListOf(_, _, _)
EdgeListOf(w, a, b) ==
    IF a > NumNodes THEN <<>>
    ELSE IF b > NumNodes THEN EdgeListOf(w, a + 1, 1)
    ELSE (IF a /= b /\ w[<<a, b>>] /= inf
          THEN <<Edge(a, b, w[<<a, b>>])>> ELSE <<>>)
         \o EdgeListOf(w, a, b + 1)

GraphIdle ==
    /\ nodes = <<>>
    /\ edges = <<>>
    /\ initial = 0
    /\ terminal = 0
    /\ costs = <<>>
    /\ predecessors = <<>>
    /\ unvisited = <<>>
    /\ current_node = 0
    /\ trajectory = <<>>

AssignIdle ==
    /\ cost_matrix = <<>>
    /\ assign_surplus = FALSE

DistanceIdle ==
    /\ chord = <<>>
    /\ position = <<>>
    /\ other = <<>>

\* no guitar: a call that takes none
NoGuitar == [tuning |-> <<>>, frets |-> 0]

ProgressionIdle ==
    /\ progression = <<>>
    /\ lower = 0
    /\ upper = 0
    /\ use_dijkstra = FALSE
    /\ guitar = NoGuitar

\* no call on a Note or a ChordName is running
NoArgs == [call |-> ""]

\* no pool is running
PoolIdle == iterable = <<>> /\ nested = <<>>

CallIdle == args = NoArgs /\ PoolIdle

InitGraph ==
    /\ CallIdle
    /\ pc = "loop"
    /\ result = <<>>
    /\ AssignIdle
    /\ DistanceIdle
    /\ nodes = GraphNodeList
    /\ \E w \in [NodePairs -> (0..MaxWeight) \cup {inf}] :
          edges = EdgeListOf(w, 1, 1)
    /\ initial \in 1..NumNodes
    /\ terminal \in 1..NumNodes
    /\ costs = InitialCosts(nodes, initial)
    /\ predecessors = <<>>
    /\ unvisited = CostKeys(nodes, initial)
    /\ current_node = 0
    /\ trajectory = <<>>
    /\ ProgressionIdle

\* lines 31-41: one iteration of the while loop
VisitNode ==
    /\ pc = "loop"
    /\ unvisited /= <<>>
    /\ current_node' = MinNode(unvisited, costs)
    /\ \E st \in {Visit(edges, [costs |-> costs, predecessors |-> predecessors,
                                unvisited |-> unvisited])} :
          /\ costs' = st.costs
          /\ predecessors' = st.predecessors
          /\ unvisited' = st.unvisited
    /\ UNCHANGED <<pc, result, nodes, edges, initial, terminal, trajectory,
                   assignVars, distanceVars, progressionVars,
                   callVars>>

\* lines 43-44: the loop is over, the backtrack starts at terminal
StartBacktrack ==
    /\ pc = "loop"
    /\ unvisited = <<>>
    /\ current_node' = terminal
    /\ trajectory' = <<terminal>>
    /\ pc' = "backtrack"
    /\ UNCHANGED <<result, nodes, edges, initial, terminal, costs,
                   predecessors, unvisited, assignVars, distanceVars, progressionVars,
                   callVars>>

\* lines 45-47: one step of the backtrack.  A trajectory longer than the
\* node list has revisited a node and will never reach initial: the loop
\* goes on and the list grows without end, of which the model keeps the
\* first Len(nodes) + 1 entries.
BacktrackStep ==
    /\ pc = "backtrack"
    /\ current_node /= initial
    /\ current_node \in DOMAIN predecessors
    /\ current_node' = predecessors[current_node]
    /\ trajectory' = (IF Len(trajectory) <= Len(nodes)
                      THEN Append(trajectory, predecessors[current_node])
                      ELSE trajectory)
    /\ UNCHANGED <<pc, result, nodes, edges, initial, terminal, costs,
                   predecessors, unvisited, assignVars, distanceVars, progressionVars,
                   callVars>>

\* line 46: predecessors[current_node] raises KeyError
BacktrackKeyError ==
    /\ pc = "backtrack"
    /\ current_node /= initial
    /\ current_node \notin DOMAIN predecessors
    /\ pc' = "KeyError"
    /\ UNCHANGED <<result, graphVars, assignVars, distanceVars, progressionVars,
                   callVars>>

\* line 48: return list(reversed(trajectory))
ReturnPath ==
    /\ pc = "backtrack"
    /\ current_node = initial
    /\ pc' = "done"
    /\ result' = Reverse(trajectory)
    /\ UNCHANGED <<graphVars, assignVars, distanceVars, progressionVars,
                   callVars>>

NextGraph ==
    \/ VisitNode
    \/ StartBacktrack
    \/ BacktrackStep
    \/ BacktrackKeyError
    \/ ReturnPath

SpecGraph == InitGraph /\ [][NextGraph]_vars

\* SpecGraphLive: the calls from node 1 to node NumNodes; the interpreter
\* runs a call without pause, so a step that can be taken is taken
InitGraphLive == InitGraph /\ initial = 1 /\ terminal = NumNodes

SpecGraphLive == InitGraphLive /\ [][NextGraph]_vars /\ WF_vars(NextGraph)

(***************************************************************************)
(* SpecAssign: one call of assign on every cost matrix of at most MaxRows  *)
(* rows and columns with costs 0..MaxCost.                                 *)
(***************************************************************************)
\* the m x n cost matrices with costs 0..MaxCost
CostMatrices(m, n) ==
    {Matrix(m, n, rows) : rows \in [1..m -> [1..n -> 0..MaxCost]]}

InitAssign ==
    /\ CallIdle
    /\ pc = "call"
    /\ result = <<>>
    /\ \E m \in 0..MaxRows, n \in 0..MaxRows : cost_matrix \in CostMatrices(m, n)
    /\ assign_surplus \in BOOLEAN
    /\ GraphIdle
    /\ DistanceIdle
    /\ ProgressionIdle

\* line 60: more columns than rows
AssignValueError ==
    /\ pc = "call"
    /\ AssignRaises(cost_matrix)
    /\ pc' = "ValueError"
    /\ UNCHANGED <<result, graphVars, assignVars, distanceVars, progressionVars,
                   callVars>>

\* line 65: argmin of a surplus row that has no column raises ValueError
AssignArgminError ==
    /\ pc = "call"
    /\ ~AssignRaises(cost_matrix)
    /\ assign_surplus /\ cost_matrix.shape[2] = 0 /\ cost_matrix.shape[1] > 0
    /\ pc' = "ValueError"
    /\ UNCHANGED <<result, graphVars, assignVars, distanceVars, progressionVars,
                   callVars>>

\* lines 61-66
Assign ==
    /\ pc = "call"
    /\ ~AssignRaises(cost_matrix)
    /\ ~(assign_surplus /\ cost_matrix.shape[2] = 0 /\ cost_matrix.shape[1] > 0)
    /\ result' = assign(cost_matrix, assign_surplus)
    /\ pc' = "done"
    /\ UNCHANGED <<graphVars, assignVars, distanceVars, progressionVars,
                   callVars>>

NextAssign ==
    \/ AssignValueError
    \/ AssignArgminError
    \/ Assign

SpecAssign == InitAssign /\ [][NextAssign]_vars

(***************************************************************************)
(* SpecChord: one call of chord.semitone_distance(other) on every pair of  *)
(* chords of at most MaxNotes notes between semitones 0 and MaxSemitone.   *)
(***************************************************************************)
IsSorted(s) == \A i \in 1..(Len(s) - 1) : s[i] <= s[i + 1]

\* Chord.__init__ sorts the notes
Chords ==
    UNION {{c \in [1..k -> 0..MaxSemitone] : IsSorted(c)} : k \in 0..MaxNotes}

InitChord ==
    /\ CallIdle
    /\ pc = "call"
    /\ result = <<>>
    /\ chord \in Chords
    /\ other \in Chords
    /\ position = <<>>
    /\ GraphIdle
    /\ AssignIdle
    /\ ProgressionIdle

SemitoneDistanceNameError ==
    /\ pc = "call"
    /\ SemitoneDistanceRaises(chord, other)
    /\ pc' = "NameError"
    /\ UNCHANGED <<result, graphVars, assignVars, distanceVars, progressionVars,
                   callVars>>

SemitoneDistance ==
    /\ pc = "call"
    /\ ~SemitoneDistanceRaises(chord, other)
    /\ result' = semitone_distance(chord, other)
    /\ pc' = "done"
    /\ UNCHANGED <<graphVars, assignVars, distanceVars, progressionVars,
                   callVars>>

NextChord ==
    \/ SemitoneDistanceNameError
    \/ SemitoneDistance

SpecChord == InitChord /\ [][NextChord]_vars

(***************************************************************************)
(* SpecPosition: one call of position.motion_distance(other) on every pair *)
(* of positions of a guitar of NumStrings strings and MaxFret frets.       *)
(***************************************************************************)
\* the positions_dict of a fret per string, -1 for a muted string
PositionsDict(frets) ==
    LET F[i \in 0..NumStrings] ==
            IF i = 0 THEN <<>>
            ELSE IF frets[i] = -1 THEN F[i - 1]
            ELSE Append(F[i - 1], <<i - 1, frets[i]>>)
    IN F[NumStrings]

Positions == {PositionsDict(f) : f \in [1..NumStrings -> -1..MaxFret]}

InitPosition ==
    /\ CallIdle
    /\ pc = "call"
    /\ result = <<>>
    /\ position \in Positions
    /\ other \in Positions
    /\ chord = <<>>
    /\ GraphIdle
    /\ AssignIdle
    /\ ProgressionIdle

MotionDistance ==
    /\ pc = "call"
    /\ result' = motion_distance(position, other)
    /\ pc' = "done"
    /\ UNCHANGED <<graphVars, assignVars, distanceVars, progressionVars,
                   callVars>>

NextPosition == MotionDistance

SpecPosition == InitPosition /\ [][NextPosition]_vars

(***************************************************************************)
(* SpecProgression: one call of optimal_voice_leading or of                *)
(* optimal_guitar_positions on every progression of at most MaxChords      *)
(* chords on one of four roots.  The voicings are of major and minor       *)
(* chords between C3 and C4 or G4, found with Graph.shortest_path or by    *)
(* brute force; the fingerings are of major and dominant seventh chords on *)
(* a guitar of four strings and five frets, the other arguments being the  *)
(* defaults.                                                               *)
(***************************************************************************)
\* C, D, F, A
Roots == {0, 2, 5, 9}

VoiceChordNames == {ChordName(r, q, r) : r \in Roots, q \in {"", "m"}}

GuitarChordNames == {ChordName(r, q, r) : r \in Roots, q \in {"", "7"}}

Progressions(names) == UNION {[1..n -> names] : n \in 0..MaxChords}

\* <<lower, upper>>: C3 to C4, C3 to G4
VoiceRanges == {<<36, 48>>, <<36, 55>>}

\* the strings D3, G3, B3, E4
Guitars == {[tuning |-> <<50, 55, 59, 64>>, frets |-> 5]}

InitVoice ==
    /\ CallIdle
    /\ pc = "optimal_voice_leading"
    /\ result = <<>>
    /\ progression \in Progressions(VoiceChordNames)
    /\ \E r \in VoiceRanges : lower = r[1] /\ upper = r[2]
    /\ use_dijkstra \in BOOLEAN
    /\ guitar = NoGuitar
    /\ GraphIdle
    /\ AssignIdle
    /\ DistanceIdle

InitGuitar ==
    /\ CallIdle
    /\ pc = "optimal_guitar_positions"
    /\ result = <<>>
    /\ progression \in Progressions(GuitarChordNames)
    /\ guitar \in Guitars
    /\ lower = 0
    /\ upper = 0
    /\ use_dijkstra = FALSE
    /\ GraphIdle
    /\ AssignIdle
    /\ DistanceIdle

InitProgression == InitVoice \/ InitGuitar

\* voicings[0] (line 531) or motions[0] (line 560) raises IndexError
VoiceLeadingIndexError ==
    /\ pc = "optimal_voice_leading"
    /\ VoiceLeadingOutcome(Voicings(progression, lower, upper), use_dijkstra)
           = "IndexError"
    /\ pc' = "IndexError"
    /\ UNCHANGED <<result, graphVars, assignVars, distanceVars, progressionVars,
                   callVars>>

\* predecessors[current_node] (graph.py line 46) raises KeyError
VoiceLeadingKeyError ==
    /\ pc = "optimal_voice_leading"
    /\ VoiceLeadingOutcome(Voicings(progression, lower, upper), use_dijkstra)
           = "KeyError"
    /\ pc' = "KeyError"
    /\ UNCHANGED <<result, graphVars, assignVars, distanceVars, progressionVars,
                   callVars>>

\* lines 545, 560: the call returns
VoiceLeading ==
    /\ pc = "optimal_voice_leading"
    /\ VoiceLeadingOutcome(Voicings(progression, lower, upper), use_dijkstra)
           = "ok"
    /\ result' = optimal_voice_leading(progression, lower, upper, use_dijkstra)
    /\ pc' = "done"
    /\ UNCHANGED <<graphVars, assignVars, distanceVars, progressionVars,
                   callVars>>

\* positions[0] (line 594) raises IndexError
GuitarPositionsIndexError ==
    /\ pc = "optimal_guitar_positions"
    /\ GuitarPositionsOutcome(PlayablePositions(progression, guitar, FALSE,
                                                FALSE, TRUE)) = "IndexError"
    /\ pc' = "IndexError"
    /\ UNCHANGED <<result, graphVars, assignVars, distanceVars, progressionVars,
                   callVars>>

\* lines 586, 613: the call returns
GuitarPositions ==
    /\ pc = "optimal_guitar_positions"
    /\ GuitarPositionsOutcome(PlayablePositions(progression, guitar, FALSE,
                                                FALSE, TRUE)) = "ok"
    /\ result' = optimal_guitar_positions(progression, guitar, FALSE, FALSE, TRUE)
    /\ pc' = "done"
    /\ UNCHANGED <<graphVars, assignVars, distanceVars, progressionVars,
                   callVars>>

NextProgression ==
    \/ VoiceLeadingIndexError
    \/ VoiceLeadingKeyError
    \/ VoiceLeading
    \/ GuitarPositionsIndexError
    \/ GuitarPositions

SpecProgression == InitProgression /\ [][NextProgression]_vars

(***************************************************************************)
(* SpecNote: the calls on a Note.  from_string(str(p)) for every Note p of *)
(* a letter, a modifier and an octave of -MaxNoteOctave..MaxNoteOctave; the        *)
(* comparisons of two Notes and nearest_above / nearest_below of a Note    *)
(* and a note name, the octaves being -NearOctaves..NearOctaves.           *)
(***************************************************************************)
\* the names Note.__init__ accepts: a letter of either case and a modifier
NoteNames(letters) == {<<l>> \o m : l \in letters, m \in Modifiers}

Notes(letters, octaves) ==
    {Note(n, o) : n \in NoteNames(letters), o \in octaves}

InitFromString ==
    /\ PoolIdle
    /\ pc = "from_string"
    /\ args \in {[call |-> "from_string", note |-> p] :
                   p \in Notes(SimpleNames \cup {"c"}, (-MaxNoteOctave)..MaxNoteOctave)}

InitCompare ==
    /\ PoolIdle
    /\ pc = "compare"
    /\ args \in {[call |-> "compare", note |-> p, other |-> q] :
                   p, q \in Notes(SimpleNames, (-NearOctaves)..NearOctaves)}

InitNearest ==
    /\ PoolIdle
    /\ pc = "nearest"
    /\ args \in {[call |-> c, note |-> p, name |-> n, allow_equal |-> e] :
                   c \in {"nearest_above", "nearest_below"},
                   p \in Notes({"C", "E", "B"}, (-NearOctaves)..NearOctaves),
                   n \in NoteNames(SimpleNames),
                   e \in BOOLEAN}

InitNote ==
    /\ result = <<>>
    /\ GraphIdle
    /\ AssignIdle
    /\ DistanceIdle
    /\ ProgressionIdle
    /\ (InitFromString \/ InitCompare \/ InitNearest)

\* lines 120-122: Note.from_string(str(p)) returns
FromString ==
    /\ pc = "from_string"
    /\ from_string(Note_repr(args.note)).status = "ok"
    /\ result' = from_string(Note_repr(args.note))
    /\ pc' = "done"
    /\ UNCHANGED <<graphVars, assignVars, distanceVars, progressionVars,
                   callVars>>

\* lines 81-86: an assert of Note.parse_name fails
FromStringRaises ==
    /\ pc = "from_string"
    /\ from_string(Note_repr(args.note)).status /= "ok"
    /\ pc' = from_string(Note_repr(args.note)).status
    /\ UNCHANGED <<result, graphVars, assignVars, distanceVars, progressionVars,
                   callVars>>

\* lines 149-162, and what functools.total_ordering derives from them
Compare ==
    /\ pc = "compare"
    /\ result' = [eq |-> Note_eq(args.note, args.other),
                  lt |-> Note_lt(args.note, args.other),
                  gt |-> ~Note_lt(args.note, args.other)
                           /\ ~Note_eq(args.note, args.other),
                  hash |-> Note_hash(args.note),
                  other_hash |-> Note_hash(args.other)]
    /\ pc' = "done"
    /\ UNCHANGED <<graphVars, assignVars, distanceVars, progressionVars,
                   callVars>>

\* lines 132-144
Nearest ==
    /\ pc = "nearest"
    /\ result' = IF args.call = "nearest_above"
                 THEN Note_nearest_above(args.note, args.name, args.allow_equal)
                 ELSE Note_nearest_below(args.note, args.name, args.allow_equal)
    /\ pc' = "done"
    /\ UNCHANGED <<graphVars, assignVars, distanceVars, progressionVars,
                   callVars>>

NextNote ==
    \/ FromString
    \/ FromStringRaises
    \/ Compare
    \/ Nearest

SpecNote == InitNote /\ [][NextNote]_vars

(***************************************************************************)
(* music.py: ChordName from its text.  The names of notes, qualities and   *)
(* extensions are sequences of characters here; QualityKey gives the key   *)
(* of QUALITY_SEMITONE_MAPPER a quality's characters spell.                *)
(***************************************************************************)
\* line 359
FLAT_KEYS ==
    {<<"C">>, <<"F">>, <<"B", "b">>, <<"E", "b">>, <<"A", "b">>,
     <<"D", "b">>, <<"G", "b">>, <<"C", "b">>, <<"F", "b">>,
     <<"B", "b", "b">>, <<"E", "b", "b">>, <<"A", "b", "b">>,
     <<"D", "b", "b">>}

\* line 360
SHARP_KEYS ==
    {<<"G">>, <<"D">>, <<"A">>, <<"E">>, <<"B">>, <<"F", "#">>,
     <<"C", "#">>, <<"G", "#">>, <<"D", "#">>, <<"A", "#">>, <<"E", "#">>,
     <<"B", "#">>, <<"F", "#", "#">>}

\* lines 361-364
KEY_BIAS(key) == IF key \in FLAT_KEYS THEN "b" ELSE "#"

\* lines 321-344: the keys of QUALITY_SEMITONE_MAPPER, as characters
QualityNames ==
    {<<>>, <<"m", "a", "j">>, <<"M">>, <<"m", "i", "n">>, <<"m">>,
     <<"d", "i", "m">>, <<"a", "u", "g">>, <<"s", "u", "s", "2">>,
     <<"s", "u", "s", "4">>, <<"m", "a", "j", "7">>, <<"M", "7">>, <<"7">>,
     <<"m", "i", "n", "m", "a", "j", "7">>, <<"m", "M", "7">>,
     <<"m", "m", "a", "j", "7">>, <<"m", "i", "n", "M", "7">>,
     <<"m", "i", "n", "7">>, <<"m", "7">>, <<"m", "7", "b", "5">>,
     <<"d", "i", "m", "7">>, <<"a", "u", "g", "7">>, <<"6">>}

\* the key of QUALITY_SEMITONE_MAPPER that the characters spell
QualityKey(quality) ==
    CASE quality = <<>> -> ""
      [] quality = <<"m", "a", "j">> -> "maj"
      [] quality = <<"M">> -> "M"
      [] quality = <<"m", "i", "n">> -> "min"
      [] quality = <<"m">> -> "m"
      [] quality = <<"d", "i", "m">> -> "dim"
      [] quality = <<"a", "u", "g">> -> "aug"
      [] quality = <<"s", "u", "s", "2">> -> "sus2"
      [] quality = <<"s", "u", "s", "4">> -> "sus4"
      [] quality = <<"m", "a", "j", "7">> -> "maj7"
      [] quality = <<"M", "7">> -> "M7"
      [] quality = <<"7">> -> "7"
      [] quality = <<"m", "i", "n", "m", "a", "j", "7">> -> "minmaj7"
      [] quality = <<"m", "M", "7">> -> "mM7"
      [] quality = <<"m", "m", "a", "j", "7">> -> "mmaj7"
      [] quality = <<"m", "i", "n", "M", "7">> -> "minM7"
      [] quality = <<"m", "i", "n", "7">> -> "min7"
      [] quality = <<"m", "7">> -> "m7"
      [] quality = <<"m", "7", "b", "5">> -> "m7b5"
      [] quality = <<"d", "i", "m", "7">> -> "dim7"
      [] quality = <<"a", "u", "g", "7">> -> "aug7"
      [] quality = <<"6">> -> "6"

\* lines 348-358: the keys of EXTENSION_SEMITONE_MAPPER
ExtensionNames ==
    {<<"b", "9">>, <<"9">>, <<"#", "9">>, <<"b", "1", "1">>, <<"1", "1">>,
     <<"#", "1", "1">>, <<"b", "1", "3">>, <<"1", "3">>, <<"#", "1", "3">>}

\* lines 348-358
EXTENSION_SEMITONE_MAPPER(ext) ==
    CASE ext = <<"b", "9">> -> 13
      [] ext = <<"9">> -> 14
      [] ext = <<"#", "9">> -> 15
      [] ext = <<"b", "1", "1">> -> 16
      [] ext = <<"1", "1">> -> 17
      [] ext = <<"#", "1", "1">> -> 18
      [] ext = <<"b", "1", "3">> -> 20
      [] ext = <<"1", "3">> -> 21
      [] ext = <<"#", "1", "3">> -> 22

\* str.startswith
StartsWith(s, prefix) ==
    Len(prefix) <= Len(s) /\ SubSeq(s, 1, Len(prefix)) = prefix

\* lines 1138-1146: best_match; the matches are prefixes of s, so the
\* longest is the only one of its length
best_match(s, choices) ==
    IF \A c \in choices : ~StartsWith(s, c) THEN Raised("ValueError")
    ELSE [status |-> "ok",
          match |-> CHOOSE c \in choices :
                       /\ StartsWith(s, c)
                       /\ \A d \in choices : StartsWith(s, d) => Len(d) <= Len(c)]

\* str.replace(old, ''): s without the occurrences of old, found from the
\* left and not overlapping
RECURSIVE Remove(_, _)
Remove(s, old) ==
    IF old = <<>> \/ s = <<>> THEN s
    ELSE IF StartsWith(s, old)
    THEN Remove(SubSeq(s, Len(old) + 1, Len(s)), old)
    ELSE <<Head(s)>> \o Remove(Tail(s), old)

\* the positions of "/" in a name
Slashes(name) == {i \in 1..Len(name) : name[i] = "/"}

\* lines 407-412: the while loop of ChordName.parse_name
RECURSIVE ParseExtensions(_, _, _, _, _)
ParseExtensions(chord_note, quality, extensions, root, remainder) ==
    IF remainder = <<>>
    THEN [status |-> "ok", chord_note |-> chord_note, quality |-> quality,
          extensions |-> extensions, root |-> root]
    ELSE IF best_match(remainder, ExtensionNames).status /= "ok"
    THEN best_match(remainder, ExtensionNames)
    ELSE ParseExtensions(
             chord_note, quality,
             Append(extensions, best_match(remainder, ExtensionNames).match),
             root,
             Remove(remainder, best_match(remainder, ExtensionNames).match))

\* lines 405-406: the quality of the remainder and what is left of it
ParseQuality(chord_note, root, remainder) ==
    ParseExtensions(
        chord_note, best_match(remainder, QualityNames).match, <<>>, root,
        Remove(remainder, best_match(remainder, QualityNames).match))

\* lines 399-404: name.split('/') and the remainder without the chord note
ParseRoot(name, chord_note) ==
    IF Cardinality(Slashes(name)) > 1 THEN Raised("ValueError")
    ELSE IF Slashes(name) = {}
    THEN ParseQuality(chord_note, chord_note, Remove(name, chord_note))
    ELSE ParseQuality(
             chord_note,
             SubSeq(name, Min(Slashes(name)) + 1, Len(name)),
             Remove(SubSeq(name, 1, Min(Slashes(name)) - 1), chord_note))

\* lines 397-412: ChordName.parse_name
ChordName_parse_name(name) ==
    IF best_match(name, FLAT_KEYS \cup SHARP_KEYS).status /= "ok"
    THEN best_match(name, FLAT_KEYS \cup SHARP_KEYS)
    ELSE ParseRoot(name, best_match(name, FLAT_KEYS \cup SHARP_KEYS).match)

\* lines 376-379: the names of the chord tones
ToneNames(chord_note, quality) ==
    [k \in 1..Len(QUALITY_SEMITONE_MAPPER(QualityKey(quality))) |->
       Note_add_semitones(Note(chord_note, 0),
                          QUALITY_SEMITONE_MAPPER(QualityKey(quality))[k],
                          KEY_BIAS(chord_note)).name]

\* line 382: Note(note, 0).same_name(Note(self.root, 0))
SameName(note, root) ==
    Note(note, 0).semitones % 12 = Note(root, 0).semitones % 12

\* the root put in front of the tones whether or not it is one of them
FrontedNames(names, root) == <<root>> \o names

\* lines 380-387: the tones rotated to the last one that has the name of
\* the root, or the root put in front of them
RootedNames(names, root) ==
    IF \E k \in 1..Len(names) : SameName(names[k], root)
    THEN RotateList(names,
                    (CHOOSE k \in 1..Len(names) :
                        /\ SameName(names[k], root)
                        /\ \A l \in (k + 1)..Len(names) :
                              ~SameName(names[l], root)) - 1)
    ELSE <<root>> \o names

\* lines 388-395: the names of the extensions
ExtensionNoteNames(chord_note, extensions) ==
    [k \in 1..Len(extensions) |->
       Note_add_semitones(Note(chord_note, 1),
                          EXTENSION_SEMITONE_MAPPER(extensions[k]),
                          IF extensions[k][1] \in {"#", "b"}
                          THEN extensions[k][1]
                          ELSE KEY_BIAS(chord_note)).name]

\* lines 372-395: ChordName.__init__ on what parse_name returned; Note(root,
\* 0) of line 382 raises for a root that is no note name
ChordNameOf(parsed) ==
    IF parsed.status /= "ok" THEN parsed
    ELSE IF Note(parsed.root, 0).status /= "ok" THEN Note(parsed.root, 0)
    ELSE [status |-> "ok", chord_note |-> parsed.chord_note,
          quality |-> parsed.quality, extensions |-> parsed.extensions,
          root |-> parsed.root,
          note_names |-> RootedNames(ToneNames(parsed.chord_note,
                                               parsed.quality),
                                     parsed.root),
          extension_names |-> ExtensionNoteNames(parsed.chord_note,
                                                 parsed.extensions)]

\* lines 372-395: ChordName.__init__
ChordName_init(chord_name) == ChordNameOf(ChordName_parse_name(chord_name))

(***************************************************************************)
(* SpecChordName: ChordName(text) for every text of at most MaxNameLen     *)
(* characters of NameChars.                                                *)
(***************************************************************************)
NameChars == {"C", "D", "E", "m", "7", "9", "/", "b"}

RECURSIVE Texts(_)
Texts(n) ==
    IF n = 0 THEN {<<>>}
    ELSE Texts(n - 1) \cup {Append(t, c) : t \in Texts(n - 1), c \in NameChars}

InitChordName ==
    /\ PoolIdle
    /\ pc = "ChordName"
    /\ result = <<>>
    /\ GraphIdle
    /\ AssignIdle
    /\ DistanceIdle
    /\ ProgressionIdle
    /\ args \in {[call |-> "ChordName", name |-> t] : t \in Texts(MaxNameLen)}

\* lines 372-395: ChordName.__init__ returns
ChordNameInit ==
    /\ pc = "ChordName"
    /\ ChordName_init(args.name).status = "ok"
    /\ result' = ChordName_init(args.name)
    /\ pc' = "done"
    /\ UNCHANGED <<graphVars, assignVars, distanceVars, progressionVars,
                   callVars>>

\* lines 398-409 and 382: best_match or name.split raises ValueError, Note
\* raises AssertionError or IndexError
ChordNameRaises ==
    /\ pc = "ChordName"
    /\ ChordName_init(args.name).status /= "ok"
    /\ pc' = ChordName_init(args.name).status
    /\ UNCHANGED <<result, graphVars, assignVars, distanceVars, progressionVars,
                   callVars>>

NextChordName ==
    \/ ChordNameInit
    \/ ChordNameRaises

SpecChordName == InitChordName /\ [][NextChordName]_vars

(***************************************************************************)
(* ChordName.get_chord on Notes                                            *)
(***************************************************************************)
\* lines 181-182: Chord.__init__, self.notes = sorted(notes); the sort is
\* stable and compares with Note.__lt__
RECURSIVE SortedNotes(_)
SortedNotes(note_list) ==
    IF note_list = <<>> THEN <<>>
    ELSE SelectSeq(SortedNotes(Tail(note_list)), LAMBDA n : Note_lt(n, Head(note_list)))
         \o <<Head(note_list)>>
         \o SelectSeq(SortedNotes(Tail(note_list)), LAMBDA n : ~Note_lt(n, Head(note_list)))

\* lines 431, 437: raise_octave.get(note_ind, 0) * 12
SemitonesToAdd(raise_octave, note_ind) ==
    IF note_ind \in DOMAIN raise_octave THEN raise_octave[note_ind] * 12 ELSE 0

\* lines 432, 438: lower.nearest_above(note_name).add_semitones(semitones_to_add)
PlacedAbove(lowerNote, note_name, semitones_to_add) ==
    Note_add_semitones(Note_nearest_above(lowerNote, note_name, TRUE),
                       semitones_to_add, "None")

\* every tone after the first placed at or above the tone before it
RECURSIVE ChainTo(_, _, _, _)
ChainTo(note_names, first, raise_octave, k) ==
    IF k = 1 THEN <<first>>
    ELSE Append(ChainTo(note_names, first, raise_octave, k - 1),
                PlacedAbove(ChainTo(note_names, first, raise_octave, k - 1)[k - 1],
                            note_names[k], SemitonesToAdd(raise_octave, k - 1)))

ChainedTones(note_names, first, raise_octave) ==
    ChainTo(note_names, first, raise_octave, Len(note_names))

\* lines 430-433: the first tone is placed at or above lower, every later
\* tone at or above the first (lower = notes[0])
RootedTones(note_names, first, raise_octave) ==
    [k \in 1..Len(note_names) |->
        IF k = 1 THEN first
        ELSE PlacedAbove(first, note_names[k],
                         SemitonesToAdd(raise_octave, k - 1))]

\* line 434: max(notes), the first of the highest notes
MaxNote(note_list) ==
    note_list[CHOOSE k \in 1..Len(note_list) :
            /\ \A l \in 1..Len(note_list) : ~Note_lt(note_list[k], note_list[l])
            /\ \A l \in 1..(k - 1) : Note_lt(note_list[l], note_list[k])]

\* lines 435-438: the extensions are placed at or above the highest tone
ExtensionTones(extension_names, upper_chord, raise_octave, num_notes) ==
    [k \in 1..Len(extension_names) |->
        PlacedAbove(upper_chord, extension_names[k],
                    SemitonesToAdd(raise_octave, k - 1 + num_notes))]

\* lines 429-433: the chord tones in the order they are placed
GetChordNotes(self, lowerNote, raise_octave) ==
    RootedTones(self.note_names,
                PlacedAbove(lowerNote, self.note_names[1],
                            SemitonesToAdd(raise_octave, 0)),
                raise_octave)

\* lines 414-439: ChordName.get_chord; the keys of raise_octave count from 0
get_chord(self, lowerNote, raise_octave) ==
    [status |-> "ok",
     notes |-> SortedNotes(
         GetChordNotes(self, lowerNote, raise_octave)
         \o ExtensionTones(self.extension_names,
                           MaxNote(GetChordNotes(self, lowerNote, raise_octave)),
                           raise_octave, Len(self.note_names)))]

(***************************************************************************)
(* SpecGetChord: get_chord of every ChordName of SpecChordName, from a     *)
(* lower Note on C, E or B with any modifier, with and without a           *)
(* raise_octave.                                                           *)
(***************************************************************************)
RaiseOctaves == {<<>>, 0 :> 1, 1 :> 1, 3 :> 2}

InitGetChord ==
    /\ PoolIdle
    /\ pc = "get_chord"
    /\ result = <<>>
    /\ GraphIdle
    /\ AssignIdle
    /\ DistanceIdle
    /\ ProgressionIdle
    /\ args \in {[call |-> "get_chord", chord_name |-> t, lower |-> l,
                  raise_octave |-> r] :
                    t \in {u \in Texts(MaxNameLen) : ChordName_init(u).status = "ok"},
                    l \in Notes({"C", "E", "B"}, LowerOctaves),
                    r \in RaiseOctaves}

\* lines 414-439
GetChord ==
    /\ pc = "get_chord"
    /\ result' = get_chord(ChordName_init(args.chord_name), args.lower,
                           args.raise_octave)
    /\ pc' = "done"
    /\ UNCHANGED <<graphVars, assignVars, distanceVars, progressionVars,
                   callVars>>

NextGetChord == GetChord

SpecGetChord == InitGetChord /\ [][NextGetChord]_vars

(***************************************************************************)
(* SpecAllChords: get_all_chords and get_all_guitar_chords of a chord      *)
(* symbol.  The ChordName is built from its text and handed to             *)
(* get_all_chords with every name as the semitones of Note(name, 0) within *)
(* the octave, every Note as its semitone index.                           *)
(***************************************************************************)
\* the semitones of Note(name, 0), within the octave
NameSemitones(name) == Note(name, 0).semitones % 12

\* a ChordName with its names as semitones
InSemitones(self) ==
    [root |-> NameSemitones(self.root),
     note_names |-> [k \in 1..Len(self.note_names) |->
                        NameSemitones(self.note_names[k])],
     extension_names |-> [k \in 1..Len(self.extension_names) |->
                             NameSemitones(self.extension_names[k])]]

\* lines 495-502: ChordName.get_all_guitar_chords
get_all_guitar_chords(self, g, allow_repeats, allow_identical) ==
    get_all_chords(self, GuitarLowest(g), GuitarHighest(g), Len(g.tuning),
                   allow_repeats, allow_identical)

\* C, Cm, C7, C9, C7/E, C/D, C9/D, Csus29, Cm#9, C9#11
AllChordsNames ==
    {<<"C">>, <<"C", "m">>, <<"C", "7">>, <<"C", "9">>,
     <<"C", "7", "/", "E">>, <<"C", "/", "D">>, <<"C", "9", "/", "D">>,
     <<"C", "s", "u", "s", "2", "9">>, <<"C", "m", "#", "9">>,
     <<"C", "9", "#", "1", "1">>}

\* lower C3; upper B3, E4, C5
AllChordsUppers == {47, 52, 60}

InitAllChords ==
    /\ PoolIdle
    /\ pc = "call"
    /\ result = <<>>
    /\ GraphIdle
    /\ AssignIdle
    /\ DistanceIdle
    /\ ProgressionIdle
    /\ \/ args \in {[call |-> "get_all_chords", chord_name |-> t,
                     lower |-> 36, upper |-> u, max_notes |-> n,
                     allow_repeats |-> r, allow_identical |-> i] :
                       t \in AllChordsNames, u \in AllChordsUppers,
                       n \in 0..MaxVoices, r \in BOOLEAN, i \in BOOLEAN}
       \/ args \in {[call |-> "get_all_guitar_chords", chord_name |-> t,
                     guitar |-> g, allow_repeats |-> r, allow_identical |-> i] :
                       t \in AllChordsNames, g \in Guitars,
                       r \in BOOLEAN, i \in BOOLEAN}

\* lines 441-493
GetAllChords ==
    /\ pc = "call"
    /\ args.call = "get_all_chords"
    /\ result' = get_all_chords(InSemitones(ChordName_init(args.chord_name)),
                                args.lower, args.upper, args.max_notes,
                                args.allow_repeats, args.allow_identical)
    /\ pc' = "done"
    /\ UNCHANGED <<graphVars, assignVars, distanceVars, progressionVars,
                   callVars>>

\* lines 495-502
GetAllGuitarChords ==
    /\ pc = "call"
    /\ args.call = "get_all_guitar_chords"
    /\ result' = get_all_guitar_chords(
                     InSemitones(ChordName_init(args.chord_name)),
                     args.guitar, args.allow_repeats, args.allow_identical)
    /\ pc' = "done"
    /\ UNCHANGED <<graphVars, assignVars, distanceVars, progressionVars,
                   callVars>>

NextAllChords ==
    \/ GetAllChords
    \/ GetAllGuitarChords

SpecAllChords == InitAllChords /\ [][NextAllChords]_vars

(***************************************************************************)
(* SpecChordPositions: Chord.guitar_positions of every chord of at most as *)
(* many notes as the guitar has strings, from one semitone below its       *)
(* lowest note to its highest, on a five-string guitar tuned in whole      *)
(* tones, on a three-string guitar whose lowest string is the second, and  *)
(* on the two lowest strings of the standard guitar with 14 frets.         *)
(***************************************************************************)
PositionGuitars ==
    {[tuning |-> <<40, 42, 44, 46, 48>>, frets |-> 2],
     [tuning |-> <<47, 40, 44>>, frets |-> 4],
     [tuning |-> <<40, 45>>, frets |-> 14]}

ChordsOn(g) ==
    UNION {{c \in [1..k -> (GuitarLowest(g) - 1)..GuitarHighest(g)] : IsSorted(c)} :
             k \in 0..Len(g.tuning)}

InitChordPositions ==
    /\ PoolIdle
    /\ pc = "guitar_positions"
    /\ result = <<>>
    /\ GraphIdle
    /\ AssignIdle
    /\ DistanceIdle
    /\ ProgressionIdle
    /\ \E g \in PositionGuitars :
          args \in {[call |-> "guitar_positions", chord |-> c, guitar |-> g,
                     max_fret_span |-> DEFAULT_MAX_FRET_SPAN,
                     include_unplayable |-> u, allow_thumb |-> t] :
                       c \in ChordsOn(g), u \in BOOLEAN, t \in BOOLEAN}

\* lines 220, 234-235: the positions returned and the two counts left on
\* the chord
PositionsOutcome(valid_combinations, playable_positions) ==
    [positions |-> playable_positions,
     num_total_guitar_positions |-> Len(valid_combinations),
     num_playable_guitar_positions |-> Len(playable_positions)]

\* lines 192-235
ChordGuitarPositions ==
    /\ pc = "guitar_positions"
    /\ result' = PositionsOutcome(
                     ValidCombinations(args.chord, args.guitar),
                     guitar_positions(args.chord, args.guitar, args.max_fret_span,
                                      args.include_unplayable, args.allow_thumb))
    /\ pc' = "done"
    /\ UNCHANGED <<graphVars, assignVars, distanceVars, progressionVars,
                   callVars>>

NextChordPositions == ChordGuitarPositions

SpecChordPositions == InitChordPositions /\ [][NextChordPositions]_vars

(***************************************************************************)
(* SpecFingering: GuitarPosition(positions, guitar, max_fret_span) for     *)
(* every mapping of the six strings of the standard guitar to a fret of    *)
(* FingeringFrets, -1 being a string the mapping leaves out.               *)
(***************************************************************************)
FingeringGuitar == [tuning |-> <<40, 45, 50, 55, 59, 64>>, frets |-> 14]

FingeringFrets == {-1, 0, 1, 2, 3, 13}

MaxFretSpans == {2, DEFAULT_MAX_FRET_SPAN}

\* the positions_dict of a fret per string, in the order of the strings
RECURSIVE FingeringOn(_, _)
FingeringOn(frets, n) ==
    IF n = 0 THEN <<>>
    ELSE IF frets[n] = -1 THEN FingeringOn(frets, n - 1)
    ELSE Append(FingeringOn(frets, n - 1), <<n - 1, frets[n]>>)

InitFingering ==
    /\ PoolIdle
    /\ pc = "GuitarPosition"
    /\ result = <<>>
    /\ GraphIdle
    /\ AssignIdle
    /\ DistanceIdle
    /\ ProgressionIdle
    /\ args \in {[call |-> "GuitarPosition",
                  positions |-> FingeringOn(f, Len(FingeringGuitar.tuning)),
                  guitar |-> FingeringGuitar, max_fret_span |-> m] :
                    f \in [1..Len(FingeringGuitar.tuning) -> FingeringFrets],
                    m \in MaxFretSpans}

\* lines 868-970
ConstructFingering ==
    /\ pc = "GuitarPosition"
    /\ result' = GuitarPosition(args.positions, args.guitar, args.max_fret_span)
    /\ pc' = IF result' = [status |-> "KeyError"] THEN "KeyError" ELSE "done"
    /\ UNCHANGED <<graphVars, assignVars, distanceVars, progressionVars,
                   callVars>>

NextFingering == ConstructFingering

SpecFingering == InitFingering /\ [][NextFingering]_vars

(***************************************************************************)
(* SpecPool: get_all_guitar_positions_for_chord_name on the strings D3,    *)
(* G3, B3, E4, sequential or parallel, on a machine of 1, 2 or 4 CPUs.     *)
(* Pool.map cuts the chords into chunks, the workers take the chunks in    *)
(* the order of the list and run them side by side, a chunk ending at its  *)
(* first task that raises, and map returns or raises once every chunk is   *)
(* over.  max_fret_span None is the malformed argument that makes tasks    *)
(* fail.                                                                   *)
(***************************************************************************)
PoolChordNames == {ChordName(r, q, r) : r \in {0, 2, 4, 7, 9}, q \in {"", "m"}}

\* os.cpu_count(), line 1196
CpuCounts == {1, 2, 4}

InitPool ==
    /\ pc = "get_all_guitar_positions_for_chord_name"
    /\ result = <<>>
    /\ PoolIdle
    /\ GraphIdle
    /\ AssignIdle
    /\ DistanceIdle
    /\ ProgressionIdle
    /\ \E g \in Guitars :
          args \in {[call |-> "get_all_guitar_positions_for_chord_name",
                     chord_name |-> n, guitar |-> g, allow_repeats |-> r,
                     allow_identical |-> FALSE, max_fret_span |-> m,
                     allow_thumb |-> TRUE, parallel |-> p,
                     cpu_count |-> c] :
                       n \in PoolChordNames, r \in BOOLEAN,
                       m \in {None, DEFAULT_MAX_FRET_SPAN}, p \in BOOLEAN,
                       c \in CpuCounts}

\* lines 1187-1190: the chords of the name within the range of the guitar
ChordsOfCall ==
    get_all_chords(args.chord_name, GuitarLowest(args.guitar),
                   GuitarHighest(args.guitar), Len(args.guitar.tuning),
                   args.allow_repeats, args.allow_identical)

SequentialReturn(outcome) ==
    /\ result' = (IF outcome.status = "ok" THEN outcome.value ELSE result)
    /\ pc' = (IF outcome.status = "ok" THEN "done" ELSE outcome.status)

\* lines 1199-1204: parallel is False
RunSequential ==
    /\ pc = "get_all_guitar_positions_for_chord_name"
    /\ ~args.parallel
    /\ SequentialReturn(SequentialPositions(ChordsOfCall, 1, args.guitar,
                                            args.max_fret_span,
                                            args.allow_thumb, <<>>))
    /\ UNCHANGED <<graphVars, assignVars, distanceVars, progressionVars,
                   callVars>>

PoolMapOf(cs) ==
    /\ iterable' = cs
    /\ nested' = [k \in 1..Len(cs) |-> Pending]

\* lines 1196-1197: Pool(os.cpu_count()) and
\* p.map(partial(_parallel_helper, **kwargs), chords) hand the chords to the
\* workers
PoolMap ==
    /\ pc = "get_all_guitar_positions_for_chord_name"
    /\ args.parallel
    /\ PoolMapOf(ChordsOfCall)
    /\ pc' = "map"
    /\ UNCHANGED <<result, args, graphVars, assignVars, distanceVars,
                   progressionVars>>

\* line 1197: a free worker takes the next chunk of the queue
TakeChunk(c) ==
    /\ pc = "map"
    /\ NextChunk(nested, c, ChunkSize(Len(iterable), args.cpu_count),
                 args.cpu_count)
    /\ nested' = [nested EXCEPT
                     ![FirstTaskOf(c, ChunkSize(Len(iterable), args.cpu_count))]
                         = Running]
    /\ UNCHANGED <<pc, result, args, iterable, graphVars, assignVars,
                   distanceVars, progressionVars>>

\* lines 1207-1211: the worker that runs the task of chord k finishes it
RunTask(k) ==
    /\ pc = "map"
    /\ nested[k] = Running
    /\ nested' = AfterTask(nested, k,
                           parallel_helper(iterable[k], args.guitar,
                                           args.allow_thumb, args.max_fret_span),
                           ChunkSize(Len(iterable), args.cpu_count))
    /\ UNCHANGED <<pc, result, args, iterable, graphVars, assignVars,
                   distanceVars, progressionVars>>

\* lines 1197-1198, 1204: every task returned; map returns the lists in the
\* order of the chords
MapReturn ==
    /\ pc = "map"
    /\ \A k \in 1..Len(nested) : nested[k].status = "ok"
    /\ result' = FlattenNested(nested)
    /\ pc' = "done"
    /\ UNCHANGED <<graphVars, assignVars, distanceVars, progressionVars,
                   callVars>>

\* line 1197: every chunk is over and a task raised; map raises the error
\* of a task that raised
MapRaise ==
    /\ pc = "map"
    /\ AllChunksDone(nested, ChunkSize(Len(iterable), args.cpu_count))
    /\ \E k \in FailedTasks(nested) : pc' = nested[k].status
    /\ UNCHANGED <<result, graphVars, assignVars, distanceVars,
                   progressionVars, callVars>>

NextPool ==
    \/ RunSequential
    \/ PoolMap
    \/ \E c \in 1..Len(nested) : TakeChunk(c)
    \/ \E k \in 1..Len(nested) : RunTask(k)
    \/ MapReturn
    \/ MapRaise

SpecPool == InitPool /\ [][NextPool]_vars

(***************************************************************************)
(* SpecInstrument: Guitar(tuning, frets, capo) for the standard tuning and *)
(* two shorter ones, with up to MaxGuitarFrets frets and the capo on any   *)
(* fret up to MaxCapo.                                                     *)
(***************************************************************************)
OpenTunings == {<<40, 45, 50, 55, 59, 64>>, <<40, 45>>, <<67, 60, 64, 69>>}

InitInstrument ==
    /\ PoolIdle
    /\ pc = "Guitar"
    /\ result = <<>>
    /\ GraphIdle
    /\ AssignIdle
    /\ DistanceIdle
    /\ ProgressionIdle
    /\ args \in {[call |-> "Guitar", tuning |-> t, frets |-> f, capo |-> c] :
                    t \in OpenTunings, f \in 0..MaxGuitarFrets, c \in 0..MaxCapo}

\* lines 782-804
ConstructGuitar ==
    /\ pc = "Guitar"
    /\ result' = Guitar(args.tuning, args.frets, args.capo)
    /\ pc' = "done"
    /\ UNCHANGED <<graphVars, assignVars, distanceVars, progressionVars,
                   callVars>>

NextInstrument == ConstructGuitar

SpecInstrument == InitInstrument /\ [][NextInstrument]_vars

(***************************************************************************)
(* SpecFilter: GuitarPosition.filter_subsets of every list of at most      *)
(* MaxFiltered positions on three strings, each string left out or stopped *)
(* at fret 1 or 2.                                                         *)
(***************************************************************************)
\* the fret of a string of the mapping
FretOn(p, st) == (CHOOSE item \in Range(p) : item[1] = st)[2]

\* the strings of the mapping
KeysOf(p) == {item[1] : item \in Range(p)}

\* a position on the same strings is taken for a superset
SubsetOfStrings(self, oth) == KeysOf(self) \subseteq KeysOf(oth)

\* lines 1035-1039: GuitarPosition.is_subset
is_subset(self, oth) ==
    /\ KeysOf(self) \subseteq KeysOf(oth)
    /\ \A item \in Range(self) : item[2] = FretOn(oth, item[1])

\* line 1124: sorted(p, key=len(positions_dict), reverse=True), which keeps
\* the order of positions of equal size
RECURSIVE SortBySizeDescending(_)
SortBySizeDescending(ps) ==
    IF ps = <<>> THEN <<>>
    ELSE SelectSeq(SortBySizeDescending(Tail(ps)),
                   LAMBDA q : Len(q) > Len(Head(ps)))
         \o <<Head(ps)>>
         \o SelectSeq(SortBySizeDescending(Tail(ps)),
                      LAMBDA q : Len(q) <= Len(Head(ps)))

\* lines 1125-1129: the loop, from position k of ps on
RECURSIVE KeepFrom(_, _, _)
KeepFrom(ps, k, out) ==
    IF k > Len(ps) THEN out
    ELSE KeepFrom(ps, k + 1,
                  IF \E j \in 1..Len(out) : is_subset(ps[k], out[j])
                  THEN out
                  ELSE Append(out, ps[k]))

\* lines 1118-1129: GuitarPosition.filter_subsets
filter_subsets(ps) == KeepFrom(SortBySizeDescending(ps), 1, <<>>)

FilterFrets == {-1, 1, 2}

FilterPositions == {FingeringOn(f, 3) : f \in [1..3 -> FilterFrets]}

InitFilter ==
    /\ PoolIdle
    /\ pc = "filter_subsets"
    /\ result = <<>>
    /\ GraphIdle
    /\ AssignIdle
    /\ DistanceIdle
    /\ ProgressionIdle
    /\ args \in {[call |-> "filter_subsets", p |-> ps] :
                    ps \in UNION {[1..n -> FilterPositions] : n \in 0..MaxFiltered}}

\* lines 1118-1129
FilterSubsets ==
    /\ pc = "filter_subsets"
    /\ result' = filter_subsets(args.p)
    /\ pc' = "done"
    /\ UNCHANGED <<graphVars, assignVars, distanceVars, progressionVars,
                   callVars>>

NextFilter == FilterSubsets

SpecFilter == InitFilter /\ [][NextFilter]_vars

(***************************************************************************)
(* Claims about Graph.shortest_path                                        *)
(***************************************************************************)
\* the least cumulative weight of a walk of at most k edges from a to every
\* node (inf: none), by Bellman-Ford rounds
RECURSIVE MinDistance(_, _, _, _)
MinDistance(nodeSet, edgeDict, a, k) ==
    IF k = 0 THEN [n \in nodeSet |-> IF n = a THEN 0 ELSE inf]
    ELSE LET d == MinDistance(nodeSet, edgeDict, a, k - 1)
         IN [n \in nodeSet |->
               Min({d[n]} \cup
                   {d[e[1]] + edgeDict[e] :
                      e \in {x \in DOMAIN edgeDict : x[2] = n /\ d[x[1]] < inf}})]

\* the least cumulative weight of a path from initial to terminal
ShortestDistance ==
    MinDistance(Range(nodes), GraphEdges(edges), initial, Len(nodes))[terminal]

\* p walks along edges of the graph
FollowsEdges(p, edgeDict) ==
    \A i \in 1..(Len(p) - 1) : <<p[i], p[i + 1]>> \in DOMAIN edgeDict

PathWeight(p, edgeDict) ==
    SumSeq([i \in 1..(Len(p) - 1) |-> edgeDict[<<p[i], p[i + 1]>>]])

\* C1 (as claimed): whenever terminal is reachable from initial, the list
\* shortest_path returns starts at initial, ends at terminal, follows edges
\* of the graph and has the minimum cumulative weight of all such paths.
C1_ShortestPathIsMinimal ==
    (pc = "done" /\ ShortestDistance < inf) =>
        /\ Head(result) = initial
        /\ result[Len(result)] = terminal
        /\ FollowsEdges(result, GraphEdges(edges))
        /\ PathWeight(result, GraphEdges(edges)) = ShortestDistance

\* terminal can be reached from initial along edges of the graph
TerminalReachable == ShortestDistance < inf

\* the call is over: it returned or raised
ShortestPathOver == pc \in {"done", "KeyError"}

\* C30: shortest_path terminates on every finite graph with non-negative
\* weights in which terminal is reachable from initial, cycles included:
\* the main loop removes one node per iteration and the backtrack from
\* terminal reaches initial without revisiting a node.
C30_ShortestPathTerminates == TerminalReachable ~> ShortestPathOver

\* the main loop has emptied unvisited, one node per iteration, and the
\* backtrack has walked from terminal over the third node to initial
C30_Witness ==
    /\ TerminalReachable
    /\ pc = "done"
    /\ unvisited = <<>>
    /\ Len(result) = 3
    /\ Head(result) = initial
    /\ result[3] = terminal
    /\ Cardinality(Range(result)) = 3

(***************************************************************************)
(* Claims about ChordProgression                                           *)
(***************************************************************************)
\* the candidates of every stage of the call: the voicings of
\* optimal_voice_leading, the playable positions that are not redundant of
\* optimal_guitar_positions
StageCandidates ==
    IF guitar = NoGuitar
    THEN Voicings(progression, lower, upper)
    ELSE PlayablePositions(progression, guitar, FALSE, FALSE, TRUE)

EveryStageHasCandidates ==
    \A i \in 1..Len(progression) : StageCandidates[i] /= <<>>

\* the summed motion_distance between consecutive positions
PositionsMotion(prog) ==
    SumSeq([i \in 1..(Len(prog) - 1) |-> motion_distance(prog[i], prog[i + 1])])

\* C2 (as claimed): when every chord has a voicing in [lower, upper],
\* optimal_voice_leading(use_dijkstra=True) returns a sequence whose summed
\* semitone_distance between consecutive voicings is at most that of every
\* sequence of one voicing per chord, the one the brute-force search
\* (use_dijkstra=False) returns included.
C2_VoiceLeadingIsMinimal ==
    (pc = "done" /\ guitar = NoGuitar /\ use_dijkstra
        /\ EveryStageHasCandidates) =>
        /\ \A prog \in Range(Product(StageCandidates)) :
              Motion(result) <= Motion(prog)
        /\ Motion(result) = Motion(BruteForce(StageCandidates))

\* C3 (as claimed): when every chord has a playable fingering that is not
\* redundant, optimal_guitar_positions returns a sequence whose summed
\* motion_distance between consecutive fingerings is the minimum over the
\* sequences of one such fingering per chord.
C3_GuitarPositionsAreMinimal ==
    (pc = "done" /\ guitar /= NoGuitar /\ EveryStageHasCandidates) =>
        \A prog \in Range(Product(StageCandidates)) :
            PositionsMotion(result) <= PositionsMotion(prog)

\* C4 (as claimed): when a chord of the progression has no candidate, the
\* optimizer returns an empty list and raises no error.
C4_NoCandidateGivesEmptyList ==
    (pc \notin {"optimal_voice_leading", "optimal_guitar_positions"}
        /\ ~EveryStageHasCandidates) =>
        (pc = "done" /\ result = <<>>)

\* optimal_guitar_positions has returned the empty list for a progression
\* with a chord that has no fingering
C4_Witness ==
    /\ pc = "done"
    /\ guitar /= NoGuitar
    /\ Len(progression) = 3
    /\ ~EveryStageHasCandidates
    /\ result = <<>>

\* the result has one element per chord, each a candidate of its chord
OnePerStage ==
    /\ Len(result) = Len(progression)
    /\ \A i \in 1..Len(result) : result[i] \in Range(StageCandidates[i])

\* C5 (as claimed): for a progression of n chords whose every stage has a
\* candidate, optimal_voice_leading and optimal_guitar_positions return n
\* elements, the i-th a candidate of the i-th chord.
C5_OneCandidatePerStage ==
    (pc \notin {"optimal_voice_leading", "optimal_guitar_positions"}
        /\ EveryStageHasCandidates) =>
        (pc = "done" /\ OnePerStage)

\* C5, what the code does: the claimed result for the progressions of
\* n >= 1 chords, the synthetic initial and terminal nodes being no part of
\* it.  For the progression of no chord,
\* optimal_voice_leading(use_dijkstra=True) and optimal_guitar_positions
\* raise IndexError (voicings[0], positions[0]), and
\* optimal_voice_leading(use_dijkstra=False) returns the empty list.
C5_OneCandidatePerStageOfSome ==
    /\ (pc \notin {"optimal_voice_leading", "optimal_guitar_positions"}
          /\ Len(progression) >= 1 /\ EveryStageHasCandidates) =>
          (pc = "done" /\ OnePerStage)
    /\ (pc \notin {"optimal_voice_leading", "optimal_guitar_positions"}
          /\ Len(progression) = 0) =>
          IF guitar = NoGuitar /\ ~use_dijkstra
          THEN pc = "done" /\ result = <<>>
          ELSE pc = "IndexError"

\* a path through three stages with more than one candidate to pick from
C5_Witness ==
    /\ pc = "done"
    /\ use_dijkstra
    /\ Len(progression) = 3
    /\ \A i \in 1..3 : Len(StageCandidates[i]) >= 2
    /\ OnePerStage

(***************************************************************************)
(* Claims about assign                                                     *)
(***************************************************************************)
\* the one-to-one functions from A to B
Injections(A, B) ==
    {f \in [A -> B] : \A x, y \in A : x /= y => f[x] /= f[y]}

\* the least summed cost of a one-to-one matching of all of the shorter
\* side of M with the longer side
MinMatchingCost(M) ==
    IF M.shape[1] >= M.shape[2]
    THEN Min({SumSeq([j \in 1..M.shape[2] |-> M.rows[f[j]][j]]) :
                f \in Injections(1..M.shape[2], 1..M.shape[1])})
    ELSE Min({SumSeq([i \in 1..M.shape[1] |-> M.rows[i][f[i]]]) :
                f \in Injections(1..M.shape[1], 1..M.shape[2])})

\* the rows of the assignment list a that have a column
AssignedRows(a) == {r \in 1..Len(a) : a[r] /= None}

\* the rows of a keep pairwise distinct columns
DistinctColumns(a, rowSet) ==
    \A r1, r2 \in rowSet : r1 /= r2 => a[r1] /= a[r2]

\* C6: for an m x n matrix of non-negative costs with m >= n,
\* assign(cost, assign_surplus=False) returns a list of m entries of which
\* exactly n are not None, pairwise distinct and covering the n columns, the
\* other m - n being None; the summed cost of the assigned pairs is the
\* minimum over the one-to-one matchings of n rows onto the n columns.
C6_AssignWithoutSurplus ==
    (pc = "done" /\ ~assign_surplus) =>
        /\ cost_matrix.shape[1] >= cost_matrix.shape[2]
        /\ Len(result) = cost_matrix.shape[1]
        /\ Cardinality(AssignedRows(result)) = cost_matrix.shape[2]
        /\ DistinctColumns(result, AssignedRows(result))
        /\ {result[r] : r \in AssignedRows(result)}
               = 0..(cost_matrix.shape[2] - 1)
        /\ AssignedCost(cost_matrix, result) = MinMatchingCost(cost_matrix)

\* a 3 x 2 matrix whose cheapest matching is not row i with column i
C6_Witness ==
    /\ pc = "done"
    /\ ~assign_surplus
    /\ cost_matrix.shape = <<3, 2>>
    /\ result[1] = None
    /\ result[2] = 1
    /\ result[3] = 0
    /\ AssignedCost(cost_matrix, result) < cost_matrix.rows[1][1]

\* a is what assign(M, assign_surplus=True) is claimed to return: every row
\* has a column; some n rows, those of a minimum-cost matching, keep
\* pairwise distinct columns that cover all the columns at the least summed
\* cost, and every other row has the column of its own least cost
SurplusAssigned(M, a) ==
    /\ Len(a) = M.shape[1]
    /\ \A r \in 1..Len(a) : a[r] \in 0..(M.shape[2] - 1)
    /\ \E matched \in SUBSET (1..Len(a)) :
          /\ Cardinality(matched) = M.shape[2]
          /\ DistinctColumns(a, matched)
          /\ {a[r] : r \in matched} = 0..(M.shape[2] - 1)
          /\ SumSeq([r \in 1..Len(a) |->
                       IF r \in matched THEN M.rows[r][a[r] + 1] ELSE 0])
                 = MinMatchingCost(M)
          /\ \A r \in (1..Len(a)) \ matched :
                \A j \in 1..M.shape[2] : M.rows[r][a[r] + 1] <= M.rows[r][j]

\* C7 (as claimed): for every m x n matrix with m >= n,
\* assign(cost, assign_surplus=True) gives every row a column: the n rows
\* of the minimum-cost matching keep pairwise distinct columns covering all
\* n columns, and each of the m - n surplus rows gets the column of its own
\* minimum cost.
C7_AssignWithSurplusAsClaimed ==
    (pc /= "call" /\ assign_surplus
        /\ cost_matrix.shape[1] >= cost_matrix.shape[2]) =>
        /\ pc = "done"
        /\ SurplusAssigned(cost_matrix, result)

\* C7 (amended): the same for every m x n matrix with m >= n and n >= 1; a
\* matrix with rows and no column makes the call raise ValueError.
C7_AssignWithSurplus ==
    /\ (pc /= "call" /\ assign_surplus
          /\ cost_matrix.shape[1] >= cost_matrix.shape[2]
          /\ cost_matrix.shape[2] >= 1) =>
          /\ pc = "done"
          /\ SurplusAssigned(cost_matrix, result)
    /\ (pc /= "call" /\ assign_surplus
          /\ cost_matrix.shape[1] >= 1 /\ cost_matrix.shape[2] = 0) =>
          pc = "ValueError"

\* a 3 x 2 matrix whose surplus row shares its column with a matched row
C7_Witness ==
    /\ pc = "done"
    /\ assign_surplus
    /\ cost_matrix = ArrayOf(<<<<0, 2>>, <<2, 1>>, <<2, 0>>>>)
    /\ result = <<0, 1, 1>>

(***************************************************************************)
(* Claims about Chord.semitone_distance                                    *)
(***************************************************************************)
\* C8: for two chords with as many notes each, at least one,
\* semitone_distance is the minimum over the one-to-one pairings of their
\* notes of the summed absolute semitone differences.
C8_SemitoneDistanceIsMinPairing ==
    (pc = "done" /\ Len(chord) = Len(other)) =>
        result = Min({SumSeq([k \in 1..Len(chord) |->
                                Abs(chord[k] - other[f[k]])]) :
                        f \in Injections(1..Len(chord), 1..Len(other))})

C8_Witness ==
    /\ pc = "done"
    /\ Len(chord) = 3
    /\ Len(other) = 3
    /\ chord[1] < other[1]
    /\ chord[3] > other[3]
    /\ result = 4

\* C9: semitone_distance is symmetric on chords with at least one note
\* each, whether or not they have as many notes.
C9_SemitoneDistanceIsSymmetric ==
    (pc = "done") => result = semitone_distance(other, chord)

C9_Witness ==
    /\ pc = "done"
    /\ Len(chord) = 1
    /\ Len(other) = 3
    /\ result = 5

(***************************************************************************)
(* Claims about GuitarPosition.motion_distance                             *)
(***************************************************************************)
\* the items of the stopped strings of a position
StoppedStrings(p) == SelectSeq(p, LAMBDA item : item[2] > 0)

\* C10 (as claimed): with respect_fingers=False, motion_distance is the
\* cost of the minimum one-to-one matching on the matrix of the pairs of
\* stopped strings of the two positions, a pair costing the difference of
\* the string indices plus the difference of the frets.
C10_MotionDistanceOverStoppedStrings ==
    (pc = "done") =>
        result = MinMatchingCost(MotionCostMatrix(StoppedStrings(position),
                                                  StoppedStrings(other)))

\* C10 (amended): the matrix is over the pairs of sounded strings, open
\* ones included: a pair costs 0 when either string is open and the
\* difference of the string indices plus the difference of the frets
\* otherwise; muted strings have no row or column, and what the matching
\* leaves unmatched costs 0.
C10_MotionDistanceOverSoundedStrings ==
    (pc = "done") =>
        result = MinMatchingCost(
                     Matrix(Len(position), Len(other),
                            [r \in 1..Len(position) |-> [c \in 1..Len(other) |->
                                IF position[r][2] = 0 \/ other[c][2] = 0 THEN 0
                                ELSE Abs(position[r][1] - other[c][1])
                                     + Abs(position[r][2] - other[c][2])]]))

\* a stopped string moves by 2 while an open string takes up the matching
C10_Witness ==
    /\ pc = "done"
    /\ position = <<<<0, 0>>, <<1, 2>>>>
    /\ other = <<<<1, 1>>>>
    /\ result = 0

(***************************************************************************)
(* Claims about Note                                                       *)
(***************************************************************************)
\* C11 (as claimed): for every Note p that can be constructed, of any
\* letter, modifier and signed octave, Note.from_string(str(p)) returns a
\* Note equal to p.
C11_FromStringRoundTrip ==
    (args.call = "from_string" /\ pc /= "from_string") =>
        (pc = "done" /\ Note_eq(result, args.note))

\* the round trip of a doubly sharpened note of a one-digit octave
C11_Witness ==
    /\ args.call = "from_string"
    /\ pc = "done"
    /\ args.note.modifier = <<"#", "#">>
    /\ args.note.octave = 9
    /\ Note_eq(result, args.note)
    /\ result.name = args.note.name

\* the semitone index of a Note: 12 per octave, the letter's and the
\* modifier's semitones
SemitoneIndex(p) ==
    12 * p.octave + SEMITONE_MAPPER(p.simple_name) + MODIFIER_MAPPER(p.modifier)

\* C12: Note equality and ordering depend on the semitone index alone:
\* p == q iff the indices are equal, equal notes hash equally, p < q iff
\* p's index is the smaller, and of p < q, p == q, p > q exactly one holds.
C12_NoteOrderIsSemitoneOrder ==
    (args.call = "compare" /\ pc = "done") =>
        /\ result.eq <=> (SemitoneIndex(args.note) = SemitoneIndex(args.other))
        /\ result.eq => (result.hash = result.other_hash)
        /\ result.lt <=> (SemitoneIndex(args.note) < SemitoneIndex(args.other))
        /\ result.gt <=> (SemitoneIndex(args.note) > SemitoneIndex(args.other))
        /\ Cardinality({k \in {"lt", "eq", "gt"} : result[k]}) = 1

\* F#1 and Gb1 compare equal and hash equally
C12_Witness ==
    /\ args.call = "compare"
    /\ pc = "done"
    /\ args.note.name = <<"F", "#">>
    /\ args.other.name = <<"G", "b">>
    /\ args.note.octave = 1
    /\ args.other.octave = 1
    /\ result.eq
    /\ result.hash = result.other_hash

\* the pitch class of a note name
PitchClass(name) ==
    (SEMITONE_MAPPER(Upper(name[1])) + MODIFIER_MAPPER(Tail(name))) % 12

\* C13: p.nearest_above(n, allow_equal) has n's pitch class and lies 0..11
\* semitones above p when allow_equal is true, 1..12 when it is false;
\* nearest_below is the mirror image, 0..11 resp. 1..12 semitones below p.
C13_NearestIsClosest ==
    (args.call \in {"nearest_above", "nearest_below"} /\ pc = "done") =>
        /\ result.status = "ok"
        /\ result.semitones % 12 = PitchClass(args.name)
        /\ (IF args.call = "nearest_above"
            THEN result.semitones - args.note.semitones
            ELSE args.note.semitones - result.semitones)
               \in (IF args.allow_equal THEN 0..11 ELSE 1..12)

\* a note of the pitch class asked for, equality not allowed: the result is
\* an octave above
C13_Witness ==
    /\ args.call = "nearest_above"
    /\ pc = "done"
    /\ ~args.allow_equal
    /\ args.note.name = <<"B", "#">>
    /\ args.name = <<"C">>
    /\ result.semitones = args.note.semitones + 12

(***************************************************************************)
(* Claims about ChordName                                                  *)
(***************************************************************************)
\* s is a run of zero or more extension tokens
RECURSIVE IsExtensions(_)
IsExtensions(s) ==
    \/ s = <<>>
    \/ \E k \in 1..Len(s) :
          /\ SubSeq(s, 1, k) \in ExtensionNames
          /\ IsExtensions(SubSeq(s, k + 1, Len(s)))

\* s is a known root, a known quality and zero or more known extensions
IsChordSymbol(s) ==
    \E i \in 0..Len(s), j \in 0..Len(s) :
        /\ i <= j
        /\ SubSeq(s, 1, i) \in FLAT_KEYS \cup SHARP_KEYS
        /\ SubSeq(s, i + 1, j) \in QualityNames
        /\ IsExtensions(SubSeq(s, j + 1, Len(s)))

\* the text is a chord symbol, or one followed by / and the name of a note
WellFormed(text) ==
    \/ IsChordSymbol(text)
    \/ \E i \in 1..Len(text) :
          /\ text[i] = "/"
          /\ IsChordSymbol(SubSeq(text, 1, i - 1))
          /\ Note(SubSeq(text, i + 1, Len(text)), 0).status = "ok"

\* C14 (as claimed): ChordName(text) raises an error for every text that is
\* not a known root, a known quality, zero or more known extensions and an
\* optional /bass; no such text yields a chord name.
C14_LeftoverTextIsRejected ==
    (args.call = "ChordName" /\ pc /= "ChordName" /\ ~WellFormed(args.name)) =>
        pc /= "done"

\* text left over after the quality that is no extension raises ValueError
C14_Witness ==
    /\ args.call = "ChordName"
    /\ args.name = <<"C", "m", "D">>
    /\ pc = "ValueError"

\* the bass of a chord symbol: the text after the slash, or the chord's own
\* note when there is no slash
BassOf(text, chord_note) ==
    IF \E i \in 1..Len(text) : text[i] = "/"
    THEN SubSeq(text, (CHOOSE i \in 1..Len(text) : text[i] = "/") + 1, Len(text))
    ELSE chord_note

\* C15: the first entry of note_names has the pitch class of the bass; when
\* the bass has the pitch class of a chord tone, note_names is the tone list
\* of the quality rotated to start at that tone, nothing added or doubled;
\* otherwise it is the bass followed by the unrotated tone list.
C15_NoteNamesStartAtBass ==
    (args.call = "ChordName" /\ pc = "done") =>
        LET tones == ToneNames(result.chord_note, result.quality)
            bass == BassOf(args.name, result.chord_note)
        IN  /\ PitchClass(result.note_names[1]) = PitchClass(bass)
            /\ IF \E k \in 1..Len(tones) : PitchClass(tones[k]) = PitchClass(bass)
               THEN \E n \in 0..(Len(tones) - 1) :
                       /\ PitchClass(tones[n + 1]) = PitchClass(bass)
                       /\ result.note_names = RotateList(tones, n)
               ELSE result.note_names = <<bass>> \o tones

\* C7/E: the tones C, E, G, Bb rotated to start at E
C15_Witness ==
    /\ args.call = "ChordName"
    /\ args.name = <<"C", "7", "/", "E">>
    /\ pc = "done"
    /\ result.note_names = <<<<"E">>, <<"G">>, <<"B", "b">>, <<"C">>>>

(***************************************************************************)
(* Claims about ChordName.get_chord                                        *)
(***************************************************************************)
\* the semitone index of the nearest pitch named name at or above index p
NearestAtOrAbove(p, name) == p + ((PitchClass(name) - p) % 12)

\* the largest of a set of integers
Highest(S) == CHOOSE x \in S : \A y \in S : y <= x

\* the tones placed one above the other, as semitone indices
RECURSIVE Ascending(_, _, _)
Ascending(names, p, k) ==
    IF k = 1 THEN <<NearestAtOrAbove(p, names[1])>>
    ELSE Append(Ascending(names, p, k - 1),
                NearestAtOrAbove(Ascending(names, p, k - 1)[k - 1], names[k]))

\* the tones placed at or above the first one, as semitone indices
AboveFirst(names, p) ==
    [k \in 1..Len(names) |->
        NearestAtOrAbove(NearestAtOrAbove(p, names[1]), names[k])]

\* the extensions placed at or above the highest of the tones
WithExtensions(tones, extension_names) ==
    tones \o [k \in 1..Len(extension_names) |->
                 NearestAtOrAbove(Highest(Range(tones)), extension_names[k])]

\* the semitone indices of the Notes of the chord get_chord made
ResultSemitones == [k \in 1..Len(result.notes) |-> SemitoneIndex(result.notes[k])]

\* a get_chord call without raise_octave has returned
GetChordDone ==
    /\ args.call = "get_chord"
    /\ pc = "done"
    /\ args.raise_octave = <<>>

\* C16 (as claimed): with no raise_octave, the first tone is the nearest of
\* its name at or above lower, each later chord tone the nearest of its name
\* above the tone placed before it, each extension the nearest of its name
\* above the highest chord tone.
C16_TonesAboveThePreviousTone ==
    GetChordDone =>
        LET cn == ChordName_init(args.chord_name)
        IN  ResultSemitones =
                SortNotes(WithExtensions(
                    Ascending(cn.note_names, SemitoneIndex(args.lower),
                              Len(cn.note_names)),
                    cn.extension_names))

\* C16 (amended): each later chord tone is the nearest of its name at or
\* above the FIRST tone, not the tone placed before it; the extensions are
\* at or above the highest chord tone.
C16_TonesAboveTheFirstTone ==
    GetChordDone =>
        LET cn == ChordName_init(args.chord_name)
        IN  ResultSemitones =
                SortNotes(WithExtensions(
                    AboveFirst(cn.note_names, SemitoneIndex(args.lower)),
                    cn.extension_names))

\* C/D from C3: D3, then C, E and G above D3, which is E3, G3, C4 and not
\* C4, E4, G4
C16_Witness ==
    /\ GetChordDone
    /\ args.chord_name = <<"C", "/", "D">>
    /\ args.lower = Note(<<"C">>, 3)
    /\ [k \in 1..Len(result.notes) |-> Note_repr(result.notes[k])]
           = <<<<"D", "3">>, <<"E", "3">>, <<"G", "3">>, <<"C", "4">>>>

(***************************************************************************)
(* Claims about ChordName.get_all_chords                                   *)
(***************************************************************************)
\* a get_all_chords or get_all_guitar_chords call has returned
AllChordsDone ==
    /\ args.call \in {"get_all_chords", "get_all_guitar_chords"}
    /\ pc = "done"

\* the pitch classes of the names
PitchClasses(names) == {PitchClass(names[k]) : k \in 1..Len(names)}

\* C17 (as claimed): every chord returned by get_all_chords or
\* get_all_guitar_chords holds a pitch of every chord-tone name and of every
\* extension name of the chord symbol.
C17_EveryNameIsSounded ==
    AllChordsDone =>
        LET cn == ChordName_init(args.chord_name)
        IN  \A k \in 1..Len(result) :
                PitchClasses(cn.note_names) \cup PitchClasses(cn.extension_names)
                    \subseteq {n % 12 : n \in Range(result[k])}

\* C9 between C3 and C5: C3 E3 G3 Bb3 would lack the ninth; the one chord
\* returned is C3 E3 G3 D4
C17_Witness ==
    /\ AllChordsDone
    /\ args.call = "get_all_chords"
    /\ args.chord_name = <<"C", "9">>
    /\ args.upper = 60
    /\ args.max_notes = 0
    /\ ~args.allow_repeats
    /\ result = <<<<36, 40, 43, 50>>>>

\* C18 (as claimed): for max_notes >= 1 every chord returned by
\* get_all_chords has at most max_notes tones.
C18_AtMostMaxNotes ==
    (AllChordsDone /\ args.call = "get_all_chords" /\ args.max_notes >= 1) =>
        \A k \in 1..Len(result) : Len(result[k]) <= args.max_notes

\* C between C3 and C5 with max_notes 3 and repeats: chords are returned,
\* none of more than 3 tones
C18_Witness ==
    /\ AllChordsDone
    /\ args.call = "get_all_chords"
    /\ args.chord_name = <<"C">>
    /\ args.upper = 60
    /\ args.max_notes = 3
    /\ args.allow_repeats
    /\ Len(result) > 1
    /\ \A k \in 1..Len(result) : Len(result[k]) = 3

\* C19 (as claimed): when allow_repeats is false no pitch class occurs twice
\* in a returned chord, and when allow_identical is false no pitch occurs
\* twice.
C19_NoRepeatedNames ==
    AllChordsDone =>
        \A k \in 1..Len(result) :
            \A i, j \in 1..Len(result[k]) :
                i /= j =>
                    /\ ~args.allow_repeats => result[k][i] % 12 /= result[k][j] % 12
                    /\ ~args.allow_identical => result[k][i] /= result[k][j]

\* C7 between C3 and C5 without repeats: several chords, each of four
\* different pitch classes
C19_Witness ==
    /\ AllChordsDone
    /\ args.call = "get_all_chords"
    /\ args.chord_name = <<"C", "7">>
    /\ args.upper = 60
    /\ args.max_notes = 0
    /\ ~args.allow_repeats
    /\ ~args.allow_identical
    /\ Len(result) > 1
    /\ \A k \in 1..Len(result) : Cardinality({n % 12 : n \in Range(result[k])}) = 4

(***************************************************************************)
(* Claims about Chord.guitar_positions                                     *)
(***************************************************************************)
\* the strings on which pitch n falls at a fret of 0 .. g.frets
StringsFor(n, g) ==
    {st \in 0..(Len(g.tuning) - 1) :
        n - g.tuning[st + 1] \in 0..g.frets}

\* the assignments of the first k pitches of the chord to different strings
\* on which they fall at a fret in range; a[i] is the string of pitch i
RECURSIVE InjectiveAssignments(_, _, _)
InjectiveAssignments(c, g, k) ==
    IF k = 0 THEN {<<>>}
    ELSE {Append(x[1], x[2]) :
            x \in {y \in InjectiveAssignments(c, g, k - 1) \X StringsFor(c[k], g) :
                     \A i \in 1..(k - 1) : y[1][i] /= y[2]}}

\* the fingering of an assignment: its <<string, fret>> pairs
FingeringOf(a, c, g) == {<<a[i], c[i] - g.tuning[a[i] + 1]>> : i \in 1..Len(a)}

\* a fingering with five stopped strings whose first string is at the lowest
\* stopped fret is played with the thumb
WithThumb(F) ==
    /\ Cardinality({x \in F : x[2] > 0}) = 5
    /\ \E x \in F : x[1] = 0 /\ x[2] > 0 /\ \A y \in F : y[2] > 0 => x[2] <= y[2]

\* how many of the positions returned are the fingering F
Returned(F) == Cardinality({k \in 1..Len(result.positions) : Range(result.positions[k]) = F})

\* how many assignments have the fingering F
Assigned(F) ==
    Cardinality({a \in InjectiveAssignments(args.chord, args.guitar, Len(args.chord)) :
                    FingeringOf(a, args.chord, args.guitar) = F})

\* every position returned has one string per pitch, all different, every
\* fret in range, and sounds the pitches of the chord
Sound ==
    \A k \in 1..Len(result.positions) :
        LET q == result.positions[k]
        IN  /\ Len(q) = Len(args.chord)
            /\ Cardinality({q[i][1] : i \in 1..Len(q)}) = Len(q)
            /\ \A i \in 1..Len(q) : q[i][2] \in 0..args.guitar.frets
            /\ SortNotes([i \in 1..Len(q) |->
                             args.guitar.tuning[q[i][1] + 1] + q[i][2]])
                   = args.chord

\* a guitar_positions call with include_unplayable=True has returned
AllPositionsDone ==
    /\ args.call = "guitar_positions"
    /\ pc = "done"
    /\ args.include_unplayable

\* the fingerings of the assignments and of the positions returned
Fingerings ==
    {FingeringOf(a, args.chord, args.guitar) :
        a \in InjectiveAssignments(args.chord, args.guitar, Len(args.chord))}
    \cup {Range(result.positions[k]) : k \in 1..Len(result.positions)}

\* C20 (as claimed): with include_unplayable=True, guitar_positions returns
\* one fingering for every injective assignment of the chord's pitches to
\* strings on which they fall at a fret of 0 .. fret-count, and nothing
\* else; each fingering has one string per pitch, frets in range, and sounds
\* the chord.
C20_ExhaustiveAndSound ==
    AllPositionsDone =>
        /\ Sound
        /\ \A F \in Fingerings : Returned(F) = Assigned(F)

\* C20 (amended): the same when allow_thumb is True; when allow_thumb is
\* False the fingerings played with the thumb are left out and the others
\* are all returned.
C20_ExhaustiveButForTheThumb ==
    AllPositionsDone =>
        /\ Sound
        /\ \A F \in Fingerings :
              Returned(F) = IF ~args.allow_thumb /\ WithThumb(F) THEN 0
                            ELSE Assigned(F)

\* 42 44 46 on the whole-tone guitar: each pitch falls on two strings, and
\* the four assignments to different strings are all returned
C20_Witness ==
    /\ AllPositionsDone
    /\ args.chord = <<42, 44, 46>>
    /\ Len(args.guitar.tuning) = 5
    /\ args.allow_thumb
    /\ Len(result.positions) = 4
    /\ result.num_total_guitar_positions = 4

\* a guitar_positions call with the default include_unplayable=False,
\* allow_thumb=True and max_fret_span has returned
DefaultPositionsDone ==
    /\ args.call = "guitar_positions"
    /\ pc = "done"
    /\ ~args.include_unplayable
    /\ args.allow_thumb
    /\ args.max_fret_span = DEFAULT_MAX_FRET_SPAN

\* the fingering F is flagged playable and not redundant
PlayableAndNotRedundant(F) ==
    /\ playable(SortedPairs(F), args.guitar, DEFAULT_MAX_FRET_SPAN)
    /\ ~redundant(SortedPairs(F), args.guitar)

\* C21: with default arguments guitar_positions returns exactly the
\* enumerated fingerings that are playable and not redundant, in
\* non-decreasing order of fret span, and num_playable_guitar_positions,
\* the number returned, is at most num_total_guitar_positions, the number
\* enumerated.
C21_DefaultPositions ==
    DefaultPositionsDone =>
        /\ \A F \in Fingerings :
              Returned(F) = IF PlayableAndNotRedundant(F) THEN Assigned(F) ELSE 0
        /\ \A k \in 1..(Len(result.positions) - 1) :
              fret_span(result.positions[k]) <= fret_span(result.positions[k + 1])
        /\ result.num_playable_guitar_positions = Len(result.positions)
        /\ result.num_total_guitar_positions
               = Cardinality(InjectiveAssignments(args.chord, args.guitar,
                                                  Len(args.chord)))
        /\ result.num_playable_guitar_positions <= result.num_total_guitar_positions

\* A2 and C#3 on the strings E and A: E 9 with A open, of span 1, comes
\* before E 5 with A 4, of span 2, although it is enumerated after it
C21_Witness ==
    /\ DefaultPositionsDone
    /\ args.chord = <<45, 49>>
    /\ args.guitar.tuning = <<40, 45>>
    /\ result.positions = << <<<<0, 9>>, <<1, 0>>>>, <<<<0, 5>>, <<1, 4>>>> >>
    /\ result.num_total_guitar_positions = 2

(***************************************************************************)
(* Claims about the parallel run of get_all_guitar_positions_for_chord_name *)
(***************************************************************************)
PoolCall == args.call = "get_all_guitar_positions_for_chord_name"

\* what the sequential run of the same call comes to
SequentialRun ==
    SequentialPositions(ChordsOfCall, 1, args.guitar, args.max_fret_span,
                        args.allow_thumb, <<>>)

SameAsSequential(sequential) ==
    /\ pc = "done" => sequential.status = "ok" /\ result = sequential.value
    /\ pc \notin {"get_all_guitar_positions_for_chord_name", "map", "done"} =>
          sequential.status = pc /\ result = <<>>

\* C26: with parallel=True the call returns, whatever the order in which the
\* workers finish, the fingerings of the sequential run; if a worker fails
\* the call raises and returns no partial list.
C26_ParallelAsSequential ==
    (PoolCall /\ args.parallel) =>
        /\ SameAsSequential(SequentialRun)
        /\ pc = "map" => result = <<>>
        /\ FailedTasks(nested) /= {} => pc /= "done" /\ result = <<>>

\* Em with repeated notes: five chords, six positions, returned chord after
\* chord
C26_Witness ==
    /\ PoolCall
    /\ args.parallel
    /\ pc = "done"
    /\ args.chord_name = ChordName(4, "m", 4)
    /\ Len(iterable) = 5
    /\ Len(result) = 6
    /\ \A k \in 1..5 : nested[k].status = "ok" /\ nested[k].value /= <<>>

(***************************************************************************)
(* Claims about Guitar                                                     *)
(***************************************************************************)
GuitarDone == args.call = "Guitar" /\ pc = "done"

\* C29: every constructed guitar has a number of frets after the capo
\* (frets - capo) that is at least 0, for every combination of frets and
\* capo the constructor accepts.
C29_FretsAfterCapo == GuitarDone => result.frets >= 0

\* the guitar of the test: 5 frets, capo on the 4th, one fret left and every
\* string four semitones up
C29_Witness ==
    /\ GuitarDone
    /\ args.tuning = <<40, 45, 50, 55, 59, 64>>
    /\ args.frets = 5
    /\ args.capo = 4
    /\ result.frets = 1
    /\ result.lowest = 44
    /\ result.highest = 69

(***************************************************************************)
(* Claims about GuitarPosition.filter_subsets                              *)
(***************************************************************************)
\* the mapping of a position as a set of <<string, fret>> pairs
Mapping(p) == Range(p)

\* C22: filter_subsets returns a sub-list of its input in which no
\* fingering's mapping is a subset of another kept fingering's mapping,
\* every input fingering is a subset of (or equal to) some kept fingering,
\* and the kept fingerings are in descending order of mapping size.
C22_FilterSubsets ==
    (args.call = "filter_subsets" /\ pc = "done") =>
        /\ \A k \in 1..Len(result) : \E j \in 1..Len(args.p) : result[k] = args.p[j]
        /\ \A k, j \in 1..Len(result) :
              k /= j => ~(Mapping(result[k]) \subseteq Mapping(result[j]))
        /\ \A j \in 1..Len(args.p) :
              \E k \in 1..Len(result) : Mapping(args.p[j]) \subseteq Mapping(result[k])
        /\ \A k \in 1..(Len(result) - 1) : Len(result[k]) >= Len(result[k + 1])

\* string 0 at fret 1 alone, then with the other two strings, then on
\* another fret: the first is dropped, the largest comes first
C22_Witness ==
    /\ args.call = "filter_subsets"
    /\ pc = "done"
    /\ args.p = << <<<<0, 1>>>>, <<<<0, 1>>, <<1, 1>>, <<2, 2>>>>, <<<<0, 2>>>> >>
    /\ result = << <<<<0, 1>>, <<1, 1>>, <<2, 2>>>>, <<<<0, 2>>>> >>

(***************************************************************************)
(* Claims about GuitarPosition                                             *)
(***************************************************************************)
\* a GuitarPosition has been constructed
FingeringDone == args.call = "GuitarPosition" /\ pc = "done"

\* the stopped entries of the mapping and their frets, the strings stopped
\* at fret f, the open strings and the strings left out
StoppedEntries == {k \in 1..Len(args.positions) : args.positions[k][2] > 0}

StoppedFrets == {args.positions[k][2] : k \in StoppedEntries}

MinFret == CHOOSE f \in StoppedFrets : \A h \in StoppedFrets : f <= h

StringsAt(f) == {args.positions[k][1] : k \in {j \in StoppedEntries : args.positions[j][2] = f}}

OpenStrings == {args.positions[k][1] : k \in {j \in 1..Len(args.positions) : args.positions[j][2] = 0}}

MutedStrings ==
    (0..(Len(args.guitar.tuning) - 1)) \ {args.positions[k][1] : k \in 1..Len(args.positions)}

\* the thumb takes the first string when five strings are stopped and the
\* first string is stopped at the minimum fret
ThumbEligible == Cardinality(StoppedEntries) = 5 /\ 0 \in StringsAt(MinFret)

\* the conditions of a barre
BarreEligible ==
    /\ Cardinality(StoppedEntries) > 4
    /\ OpenStrings = {}
    /\ Cardinality(StringsAt(MinFret)) >= 2
    /\ ~ThumbEligible
    /\ ~\E st \in MutedStrings \cup OpenStrings :
          /\ \E lo \in StringsAt(MinFret) : lo < st
          /\ \E hi \in StringsAt(MinFret) : st < hi

\* the three conditions on a fingering of more than four stopped strings
BarreFits ==
    /\ Cardinality(StoppedFrets) <= 4
    /\ Cardinality({k \in StoppedEntries : args.positions[k][2] > MinFret}) <= 3
    /\ Cardinality(StringsAt(MinFret)) >= 2

\* C23 (as claimed): a fingering of at least one string is unplayable if
\* its fret span exceeds max_fret_span; otherwise playable if it has at most
\* 4 stopped strings or is thumb-eligible; otherwise playable iff it has at
\* most 4 distinct stopped frets, at most 3 stopped strings above the
\* minimum fret and at least 2 strings at the minimum fret.
C23_PlayableRule ==
    (FingeringDone /\ args.positions /= <<>>) =>
        result.playable =
            IF result.fret_span > args.max_fret_span THEN FALSE
            ELSE IF Cardinality(StoppedEntries) <= 4 \/ ThumbEligible THEN TRUE
            ELSE BarreFits

\* C23 (amended): the empty fingering is unplayable, and a fingering of more
\* than 4 stopped strings that is not thumb-eligible is playable iff its
\* barre flag is set and the three conditions hold.
C23_PlayableRuleWithBarre ==
    FingeringDone =>
        result.playable =
            IF args.positions = <<>> THEN FALSE
            ELSE IF result.fret_span > args.max_fret_span THEN FALSE
            ELSE IF Cardinality(StoppedEntries) <= 4 \/ ThumbEligible THEN TRUE
            ELSE result.barre /\ BarreFits

\* A, D at fret 1, G at 2, B and e at 3, E left out: five stopped strings,
\* no thumb, a barre over A and D, playable
C23_Witness ==
    /\ FingeringDone
    /\ args.positions = <<<<1, 1>>, <<2, 1>>, <<3, 2>>, <<4, 3>>, <<5, 3>>>>
    /\ args.max_fret_span = DEFAULT_MAX_FRET_SPAN
    /\ result.barre
    /\ result.playable

\* C24: barre is true iff more than 4 strings are stopped, no string is
\* open, at least 2 strings are at the minimum fret, the thumb is not in
\* use, and no muted or open string lies strictly between the lowest and
\* the highest string at the minimum fret; barre and use_thumb are never
\* both true.
C24_BarreFlag ==
    FingeringDone =>
        /\ result.barre = BarreEligible
        /\ result.use_thumb = ThumbEligible
        /\ ~(result.barre /\ result.use_thumb)

\* E, A at fret 1, D at 2, G and B at 3, e left out: the thumb takes E, so
\* there is no barre although the other conditions hold
C24_Witness ==
    /\ FingeringDone
    /\ args.positions = <<<<0, 1>>, <<1, 1>>, <<2, 2>>, <<3, 3>>, <<4, 3>>>>
    /\ result.use_thumb
    /\ ~result.barre

\* C25 (as claimed): a redundant fingering has at least one stopped string
\* and every stopped fret at 12 or above; a fingering with a stopped fret
\* below 12 is never redundant; open strings do not affect the flag.
C25_RedundantRule ==
    FingeringDone =>
        result.redundant = (StoppedFrets /= {} /\ \A f \in StoppedFrets : f >= 12)

\* E and A at fret 13, e open: redundant
C25_Witness ==
    /\ FingeringDone
    /\ args.positions = <<<<0, 13>>, <<1, 13>>, <<5, 0>>>>
    /\ result.redundant

\* C27 (as claimed): fret_span is highest fret - lowest nonzero fret + 1
\* when a string is stopped, and 0 when none is (only open strings, or the
\* empty mapping).
C27_FretSpan ==
    FingeringDone =>
        result.fret_span =
            IF StoppedFrets = {} THEN 0
            ELSE Highest(StoppedFrets) - MinFret + 1

\* C27 (amended): with no stopped string, fret_span is 1 for open strings
\* and None for the empty mapping.
C27_FretSpanOfOpenStrings ==
    FingeringDone =>
        result.fret_span =
            IF args.positions = <<>> THEN None
            ELSE IF StoppedFrets = {} THEN 1
            ELSE Highest(StoppedFrets) - MinFret + 1

\* E open, A at fret 1, D at fret 3: the span is 3
C27_Witness ==
    /\ FingeringDone
    /\ args.positions = <<<<0, 0>>, <<1, 1>>, <<2, 3>>>>
    /\ result.fret_span = 3

\* C28: a playable fingering has a finger, T or 1 to 4, on every stopped
\* string; a fingering that got fewer fingers than it has stopped strings
\* is not playable.
C28_PlayableHasFingers ==
    FingeringDone =>
        /\ result.playable =>
              \A st \in result.fretted_strings :
                  /\ st \in DOMAIN result.fingers_dict
                  /\ result.fingers_dict[st] \in {"T", "1", "2", "3", "4"}
        /\ Cardinality(DOMAIN result.fingers_dict)
               < Cardinality(result.fretted_strings) => ~result.playable

\* E at fret 1, A at fret 3: fingers 1 and 3, the gap of two frets skipping
\* finger 2
C28_Witness ==
    /\ FingeringDone
    /\ args.positions = <<<<0, 1>>, <<1, 3>>>>
    /\ args.max_fret_span = DEFAULT_MAX_FRET_SPAN
    /\ result.playable
    /\ result.fingers_dict = (0 :> "1" @@ 1 :> "3")

====
